---- MODULE Spec2Model ----
(***************************************************************************)
(* Execution backends of NumS (nums/core/systems/systems.py): the Serial   *)
(* reference system, the MPI (rank based, SPMD) system and the Ray         *)
(* (cluster scheduler) system, driven by one program of register, put,     *)
(* call, get and actor operations.  The Serial system runs the same        *)
(* program side by side as the reference the other systems are compared    *)
(* with.  An uncaught exception ends the program on the process that       *)
(* raised it.                                                              *)
(***************************************************************************)
EXTENDS Integers, Sequences, FiniteSets, TLC

\* ------------------------------------------------------------- bounds
NRanks == 2          \* MPI processes (comm.Get_size())
NNodes == 2          \* nodes ray.nodes() reports
MaxHandles == 2      \* handles a program creates with put and call

Ranks == 0 .. (NRanks - 1)
NodeIps == 1 .. NNodes
PutValues == {1, 2}
LitValues == {1}
Names == {"identity", "sum_reduce"}
ActorNames == {"A"}
NoFn == "unregistered"

\* ------------------------------------------------------------- objects
\* A Python object a handle can stand for, as a record of one shape.
Val(n) == [k |-> "val", v |-> n]
None == [k |-> "none", v |-> 0]
Raised == [k |-> "raise", v |-> 0]
ActorObj(cls) == [k |-> "actor", v |-> cls]
ObjectRef(t) == [k |-> "ref", v |-> t]

\* class MPITargetRank: the 'lives elsewhere' marker, carrying a rank.
MPITargetRank(rank) == [k |-> "rank", v |-> rank]

get_target_rank(obj) == obj.v

DeviceID(node_index, node_key, device_kind, device_slot) ==
    [node_index |-> node_index, node_key |-> node_key,
     device_kind |-> device_kind, device_slot |-> device_slot]

\* ------------------------------------------------------------- kernel
RECURSIVE SumVals(_)
SumVals(args) ==
    IF args = <<>> THEN 0 ELSE Head(args).v + SumVals(Tail(args))

\* KernelCls.identity(value), called as identity(*args).
identity(args) == IF Len(args) = 1 THEN args[1] ELSE Raised

\* KernelCls.sum_reduce(*arrs): np.add.reduce(arrs).
sum_reduce(args) ==
    IF Len(args) = 0 THEN Val(0)
    ELSE IF Len(args) = 1 THEN args[1]
    ELSE IF \A i \in 1 .. Len(args) : args[i].k = "val" THEN Val(SumVals(args))
    ELSE Raised

KernelApply(fn, args) ==
    IF fn = "identity" THEN identity(args)
    ELSE IF fn = "sum_reduce" THEN sum_reduce(args)
    ELSE Raised

\* ------------------------------------------------------------- state
VARIABLES
    backend,               \* the distributed system under the program: "mpi" or "ray"
    inited,                \* init() has returned
    proc_name,             \* MPI: get_private_ip() of each rank
    ray_env,               \* Ray: what ray.nodes(), the head ip and ray.is_initialized() give
    ray_cfg,               \* RaySystem(use_head, num_nodes), and _manage_ray
    devices,               \* self._devices of each process
    device_to_node,        \* self._device_to_node of each process
    remote_functions,      \* self._remote_functions
    actors,                \* self._actors
    actor_node_index,      \* self._actor_node_index of each process
    ser_remote_functions,  \* SerialSystem._remote_functions
    ser_actors,            \* SerialSystem._actors
    serH,                  \* what each handle is on the Serial system
    H,                     \* what each handle is on each process of the system
    origin,                \* the operation that created each handle
    op,                    \* the operation being run (the last one issued)
    pc,                    \* where each process is in the operation
    frame,                 \* locals of _resolve_args on each process
    chan,                  \* messages sent with comm.send and not yet received
    arrived,               \* ranks inside comm.barrier()
    passed,                \* barriers each rank has left during the operation
    invoked,               \* calls of the registered function on each rank during the operation
    ret,                   \* what the operation returned on each process
    ser_ret,               \* what the operation returned on the Serial system
    warned,                \* the operation called warnings.warn
    A,                     \* what each actor handle is on each process of the system
    tasks,                 \* Ray: the tasks and actors submitted to the scheduler
    stock,                 \* Ray: the system is a RaySystemStockScheduler
    warmup,                \* Ray: where RaySystem.warmup is
    shutdowns,             \* the calls of shutdown() so far
    rng_args,              \* kernel: the arguments each RNG was created with
    rng,                   \* kernel: seed and jump_index of each RNG
    handed,                \* kernel: what new_block_rng_params returned, for each RNG
    requests,              \* kernel: what the program samples as its k-th block
    blocks,                \* kernel: the blocks random_block returned, for each RNG
    rng_thr,               \* kernel: the threads inside new_block_rng_params
    mk_thr,                \* Ray: the threads inside make_actor
    heap,                  \* kernel: the storage of the arrays, by buffer
    upd,                   \* kernel: the arrays of an update_block call
    piv,                   \* kernel: the arguments and result of pivot_partition
    kcall,                 \* kernel: the arguments and result of the call of another function
    blk                    \* the blocks of a block array, original and transposed

vars == <<backend, inited, proc_name, ray_env, ray_cfg, devices, device_to_node,
          remote_functions, actors, actor_node_index, ser_remote_functions,
          ser_actors, serH, H, origin, op, pc, frame, chan, arrived, passed,
          invoked, ret, ser_ret, warned, A, tasks, stock, warmup, shutdowns,
          rng_args, rng, handed, requests, blocks, rng_thr, mk_thr, heap, upd, piv,
          kcall, blk>>

envVars == <<backend, proc_name, ray_env, stock>>

\* The state of the operations that are no part of a program of register, put,
\* call, get and actor operations.
rngVars == <<rng_args, rng, handed, requests, blocks, rng_thr>>
updVars == <<heap, upd>>
sideVars == <<warmup, shutdowns, rngVars, mk_thr, updVars, piv, kcall, blk>>
notWarmup == <<shutdowns, rngVars, mk_thr, updVars, piv, kcall, blk>>
notLifecycle == <<warmup, rngVars, mk_thr, updVars, piv, kcall, blk>>
notRng == <<warmup, shutdowns, mk_thr, updVars, piv, kcall, blk>>
notActorThreads == <<warmup, shutdowns, rngVars, updVars, piv, kcall, blk>>
notUpdate == <<warmup, shutdowns, rngVars, mk_thr, piv, kcall, blk>>
notPivot == <<warmup, shutdowns, rngVars, mk_thr, updVars, kcall, blk>>
notKernelCall == <<warmup, shutdowns, rngVars, mk_thr, updVars, piv, blk>>
notBlock == <<warmup, shutdowns, rngVars, mk_thr, updVars, piv, kcall>>
regVars == <<remote_functions, actors, ser_remote_functions, ser_actors>>
devVars == <<devices, device_to_node>>
mpiVars == <<frame, chan, arrived, passed, invoked>>

\* The state of the system, which the kernel's functions leave alone.
sysVars == <<backend, proc_name, ray_env, stock, ray_cfg, inited, devices,
             device_to_node, remote_functions, actors, ser_remote_functions,
             ser_actors, actor_node_index, serH, H, A, origin, op, pc, frame, chan,
             arrived, passed, invoked, ret, ser_ret, warned, tasks>>

\* The processes that run the program: every rank, or the one Ray driver.
Procs == IF backend = "mpi" THEN Ranks ELSE {0}

Unbound == 0 - 1

NoFrame == [i |-> 1, target_rank |-> Unbound, resolved_args |-> <<>>]

\* An argument of a call: a literal value, or a handle of an earlier put or call.
Lit(n) == [lit |-> TRUE, x |-> n]
Hnd(h) == [lit |-> FALSE, x |-> h]

ArgSpecs == {Lit(n) : n \in LitValues} \cup {Hnd(h) : h \in 1 .. Len(H)}
ArgLists == {<<>>} \cup {<<a>> : a \in ArgSpecs} \cup {<<a, b>> : a, b \in ArgSpecs}

\* The object process p passes for an argument.
ArgObj(p, a) == IF a.lit THEN Val(a.x) ELSE H[a.x][p]
SerArgObj(a) == IF a.lit THEN Val(a.x) ELSE serH[a.x]

AllIdle == \A p \in Procs : pc[p] = "idle"

\* ------------------------------------------------------------- SerialSystem
SerialSystem_put(value, device_id) == value

SerialSystem_get(object_ids) == object_ids

SerialSystem_remote(function, remote_params) == function

SerialSystem_devices == <<DeviceID(0, "localhost", "cpu", 0)>>

\* A register that overwrites the entry of a registered name.
SerialSystem_register_overwrite(fns, name, func, remote_params) ==
    [fns EXCEPT ![name] = SerialSystem_remote(func, remote_params)]

SerialSystem_register(fns, name, func, remote_params) ==
    IF fns[name] # NoFn THEN fns
    ELSE [fns EXCEPT ![name] = SerialSystem_remote(func, remote_params)]

SerialSystem_call(fns, name, args) == KernelApply(fns[name], args)

SerialSystem_register_actor(acts, name, cls) ==
    IF acts[name] # NoFn THEN acts ELSE [acts EXCEPT ![name] = cls]

SerialSystem_make_actor(acts, name, args) == ActorObj(acts[name])

\* getattr(actor, method)(*args): the one method of the model's actor classes
\* returns the sum of its arguments.
ActorMethod(actor, args) == IF actor.k = "actor" THEN sum_reduce(args) ELSE Raised

SerialSystem_call_actor_method(actor, args) == ActorMethod(actor, args)

\* ------------------------------------------------------------- MPISystem
\* The host layouts of the ranks: k hosts, the last one taking the remaining ranks.
HostLayouts ==
    {[r \in Ranks |-> IF r < k THEN r ELSE k - 1] : k \in 1 .. NRanks}

\* comm.Allgather({proc_name: rank}): the processor names, then one device per
\* distinct name, device node being the node's index.
MPI_num_nodes == Cardinality({proc_name[r] : r \in Ranks})

MPISystem_init_devices(rank) ==
    [node \in 1 .. MPI_num_nodes |-> DeviceID(node - 1, proc_name[rank], "cpu", rank)]

MPISystem_device_to_node(devs) ==
    [did \in {devs[i] : i \in 1 .. Len(devs)} |->
        (CHOOSE i \in 1 .. Len(devs) : devs[i] = did) - 1]

MPISystem_put(rank, dtn, value, device_id) ==
    LET target_rank == dtn[device_id]
    IN  IF rank = target_rank THEN value ELSE MPITargetRank(target_rank)

\* A get that roots every broadcast at the calling rank.
MPISystem_get_root_own(rank, obj) == rank

\* The root rank process `rank` gives comm.bcast for obj.
MPISystem_get_root(rank, obj) ==
    IF obj.k = "rank" THEN get_target_rank(obj) ELSE rank

MPISystem_remote(function, remote_params) == function

MPISystem_register(fns, name, func, remote_params) ==
    IF fns[name] # NoFn THEN fns
    ELSE [fns EXCEPT ![name] = MPISystem_remote(func, remote_params)]

MPISystem_register_actor(acts, name, cls) ==
    IF acts[name] # NoFn THEN acts ELSE [acts EXCEPT ![name] = cls]

\* ------------------------------------------------------------- RaySystem
\* Resource amounts are counted in units of 1/10^4: 1.0 is UnitsPerOne units and
\* the 1.0 / 10 ** 4 a pinned request asks for is PinAmount units.
UnitsPerOne == 10000
PinAmount == 1

NodeKey(ip) == [res |-> "node", ip |-> ip]
CpuKey == [res |-> "CPU", ip |-> 0]
CustomKey == [res |-> "custom", ip |-> 0]

\* node["Resources"] of a node of ray.nodes(): its "node:<ip>" key and, when it
\* has CPUs, "CPU".
Resources(node) ==
    [key \in {NodeKey(node.ip)} \cup (IF node.cpu > 0 THEN {CpuKey} ELSE {}) |->
        IF key.res = "node" THEN UnitsPerOne ELSE node.cpu * UnitsPerOne]

NoNode == [ip |-> 0, cpu |-> 0]

RaySystem_node_cpu_resources(node) ==
    IF CpuKey \in DOMAIN Resources(node) THEN Resources(node)[CpuKey] ELSE 0

RaySystem_has_cpu_resources(node) == RaySystem_node_cpu_resources(node) > 0

RaySystem_node_key(node) ==
    CHOOSE key \in DOMAIN Resources(node) : key.res = "node"

RaySystem_node_ip(node) == RaySystem_node_key(node).ip

\* The loop of init over ray.nodes(): the head node and the worker nodes.
RECURSIVE RayScanNodes(_, _, _, _)
RayScanNodes(nodes, head_ip, head_node, worker_nodes) ==
    IF nodes = <<>> THEN [head_node |-> head_node, worker_nodes |-> worker_nodes]
    ELSE LET node == Head(nodes)
         IN  IF head_ip = RaySystem_node_ip(node)
             THEN RayScanNodes(Tail(nodes), head_ip, node, worker_nodes)
             ELSE IF RaySystem_has_cpu_resources(node)
             THEN RayScanNodes(Tail(nodes), head_ip, head_node, Append(worker_nodes, node))
             ELSE RayScanNodes(Tail(nodes), head_ip, head_node, worker_nodes)

\* An init that takes the head node whatever use_head is.
RaySystem_available_nodes_head(env, use_head) ==
    LET scan == RayScanNodes(env.nodes, env.head_ip, NoNode, <<>>)
    IN  IF scan.head_node = NoNode THEN scan.worker_nodes
        ELSE IF RaySystem_has_cpu_resources(scan.head_node)
        THEN Append(scan.worker_nodes, scan.head_node)
        ELSE scan.worker_nodes

RaySystem_available_nodes(env, use_head) ==
    LET scan == RayScanNodes(env.nodes, env.head_ip, NoNode, <<>>)
    IN  IF scan.head_node = NoNode THEN scan.worker_nodes
        ELSE IF use_head /\ RaySystem_has_cpu_resources(scan.head_node)
        THEN Append(scan.worker_nodes, scan.head_node)
        ELSE scan.worker_nodes

\* self._num_nodes after init: the configured count (0 stands for None).
RaySystem_num_nodes(cfg, available_nodes) ==
    IF cfg.num_nodes = 0 THEN Len(available_nodes) ELSE cfg.num_nodes

RaySystem_init_devices(num_nodes, available_nodes) ==
    [node_id \in 1 .. num_nodes |->
        DeviceID(node_id - 1, RaySystem_node_key(available_nodes[node_id]), "cpu", 1)]

RaySystem_device_to_node(devs, available_nodes) ==
    [did \in {devs[i] : i \in 1 .. Len(devs)} |->
        available_nodes[CHOOSE i \in 1 .. Len(devs) : devs[i] = did]]

\* Options of a call: the "resources" entry (a set of key and amount pairs)
\* when there is one, and the other top-level keys.
NoOptions == [has_resources |-> FALSE, resources |-> {}, keys |-> {}]
CallerOptions ==
    {NoOptions,
     [has_resources |-> TRUE, resources |-> {[key |-> CustomKey, amt |-> UnitsPerOne]},
      keys |-> {}]}

\* An operation of the program, with the options a call was given.
NoOp ==
    [kind |-> "none", name |-> "", fn |-> "", args |-> <<>>, dev |-> 0, h |-> 0,
     val |-> 0, dup |-> FALSE, params |-> FALSE, opts |-> FALSE,
     options |-> NoOptions]

\* The assert of call: with "resources" among the options, node_key is no
\* top-level key of them.
RaySystem_call_assert(options, node_key) ==
    options.has_resources => node_key \notin options.keys

\* A call that hands the caller's options to the scheduler as they are.
RaySystem_call_options_unpinned(options, node_key) == options

\* options["resources"] = {node_key: 1.0 / 10 ** 4}
RaySystem_call_options(options, node_key) ==
    [options EXCEPT !.has_resources = TRUE,
                    !.resources = {[key |-> node_key, amt |-> PinAmount]}]

RaySystem_make_actor_options(node_key) ==
    [has_resources |-> TRUE, resources |-> {[key |-> node_key, amt |-> PinAmount]},
     keys |-> {}]

\* ray.remote(num_cpus=1, **remote_params)(function): raises when remote_params
\* is None.
RaySystem_remote_raises(remote_params) == ~remote_params

RaySystem_register(fns, name, func, remote_params) ==
    IF fns[name] # NoFn THEN fns ELSE [fns EXCEPT ![name] = func]

RaySystem_register_actor(acts, name, cls) ==
    IF acts[name] # NoFn THEN acts ELSE [acts EXCEPT ![name] = cls]

\* A task or actor handed to the scheduler with .options(**options).remote(*args).
Task(kind, fn, args, options, dev) ==
    [kind |-> kind, fn |-> fn, args |-> args, options |-> options, dev |-> dev,
     actor |-> 0, state |-> "pending", node |-> 0, result |-> None]

\* The scheduler may run a task on a node that holds every requested resource
\* and the CPU ray.remote(num_cpus=1) asks for.
Feasible(task, node) ==
    /\ \A req \in task.options.resources :
          /\ req.key \in DOMAIN Resources(node)
          /\ Resources(node)[req.key] >= req.amt
    /\ RaySystem_node_cpu_resources(node) >= UnitsPerOne

\* ------------------------------------------------------------- initial states
\* The clusters and configurations the program runs on: every node has a CPU,
\* the driver runs on the first node (the head), the head is left out or used,
\* and the node count is left open or, without the head, set to NNodes.
RayEnvs ==
    {[nodes |-> [i \in NodeIps |-> [ip |-> i, cpu |-> 1]],
      head_ip |-> 1, initialized |-> FALSE, foreign |-> FALSE]}
RayCfgs ==
    {[use_head |-> u, num_nodes |-> 0, manage_ray |-> TRUE] : u \in BOOLEAN}
    \cup {[use_head |-> FALSE, num_nodes |-> NNodes, manage_ray |-> TRUE]}
NoEnv == [nodes |-> <<>>, head_ip |-> 0, initialized |-> FALSE, foreign |-> FALSE]
NoCfg == [use_head |-> FALSE, num_nodes |-> 0, manage_ray |-> TRUE]
Pending == [k |-> "pending", v |-> 0]
ActorClasses == {"C1", "C2"}

\* RaySystem.warmup has not been called.
NoWarmup == [pc |-> "none", n |-> 0, i |-> 0, a |-> 0, b |-> 0, r |-> 0]

\* No RNG has been created.
RngIdle ==
    /\ rng_args = <<>> /\ rng = <<>> /\ handed = <<>> /\ requests = <<>>
    /\ blocks = <<>> /\ rng_thr = <<>>

\* The system has not been warmed up or shut down, and no thread is in
\* make_actor.
SystemIdle == warmup = NoWarmup /\ shutdowns = 0 /\ mk_thr = <<>>

\* No array has been created.
UpdateIdle == heap = <<>> /\ upd = <<>>

\* pivot_partition has no arguments.
PivotIdle == piv = <<>>

\* No other kernel function has arguments, and no block array was created.
KernelIdle == kcall = <<>>
BlockIdle == blk = <<>>

SideIdle == SystemIdle /\ RngIdle /\ UpdateIdle /\ PivotIdle /\ KernelIdle /\ BlockIdle

\* The systems as constructed, the Ray system on one of the clusters envs.
InitSystemOn(envs, cfgs) ==
    /\ backend \in {"mpi", "ray"}
    /\ proc_name \in (IF backend = "mpi" THEN HostLayouts ELSE {[r \in Ranks |-> 0]})
    /\ ray_env \in (IF backend = "ray" THEN envs ELSE {NoEnv})
    /\ ray_cfg \in (IF backend = "ray" THEN cfgs ELSE {NoCfg})
    /\ inited = FALSE
    /\ devices = [p \in Procs |-> <<>>]
    /\ device_to_node = [p \in Procs |-> <<>>]
    /\ remote_functions = [n \in Names |-> NoFn]
    /\ actors = [n \in ActorNames |-> NoFn]
    /\ actor_node_index = [p \in Procs |-> 0]
    /\ ser_remote_functions = [n \in Names |-> NoFn]
    /\ ser_actors = [n \in ActorNames |-> NoFn]
    /\ serH = <<>>
    /\ H = <<>>
    /\ A = <<>>
    /\ origin = <<>>
    /\ op = NoOp
    /\ pc = [p \in Procs |-> "idle"]
    /\ frame = [p \in Procs |-> NoFrame]
    /\ chan = {}
    /\ arrived = {}
    /\ passed = [p \in Procs |-> 0]
    /\ invoked = [p \in Procs |-> 0]
    /\ ret = [p \in Procs |-> None]
    /\ ser_ret = None
    /\ warned = {}
    /\ tasks = <<>>

InitSystem(envs) == InitSystemOn(envs, RayCfgs)

Init == InitSystem(RayEnvs) /\ stock = FALSE /\ SideIdle

\* ------------------------------------------------------------- init()
\* MPISystem.init on every rank (a collective all-gather, then init_devices).
MPIInit ==
    /\ backend = "mpi" /\ ~inited /\ AllIdle
    /\ inited' = TRUE
    /\ devices' = [r \in Ranks |-> MPISystem_init_devices(r)]
    /\ device_to_node' = [r \in Ranks |-> MPISystem_device_to_node(MPISystem_init_devices(r))]
    /\ op' = [NoOp EXCEPT !.kind = "init"]
    /\ UNCHANGED <<envVars, sideVars, ray_cfg, regVars, actor_node_index, serH, H, A, origin, pc,
                   mpiVars, ret, ser_ret, warned, tasks>>

\* RaySystem.init: the assert on the configured node count fails the program.
RayInit ==
    /\ backend = "ray" /\ ~inited /\ AllIdle
    /\ LET available_nodes == RaySystem_available_nodes(ray_env, ray_cfg.use_head)
           num_nodes == RaySystem_num_nodes(ray_cfg, available_nodes)
           devs == RaySystem_init_devices(num_nodes, available_nodes)
       IN  /\ ray_cfg' = [ray_cfg EXCEPT !.manage_ray = ~ray_env.initialized]
           /\ ray_env' = [ray_env EXCEPT !.initialized = TRUE]
           /\ IF num_nodes <= Len(available_nodes)
              THEN /\ inited' = TRUE
                   /\ devices' = [p \in Procs |-> devs]
                   /\ device_to_node' =
                          [p \in Procs |-> RaySystem_device_to_node(devs, available_nodes)]
                   /\ pc' = pc
              ELSE /\ pc' = [p \in Procs |-> "failed"]
                   /\ UNCHANGED <<inited, devVars>>
    /\ op' = [NoOp EXCEPT !.kind = "init"]
    /\ UNCHANGED <<backend, proc_name, stock, sideVars, regVars, actor_node_index, serH,
                   H, A, origin,
                   mpiVars, ret, ser_ret, warned, tasks>>

\* ------------------------------------------------------------- register
\* The registries are filled at startup, before the program creates a handle.
Registering == H = <<>> /\ A = <<>>

\* register(name, func, remote_params) on the Serial system and on the system
\* (on every rank alike); remote_params is None (FALSE) or a dict (TRUE).
Register(name, func, remote_params) ==
    /\ inited /\ AllIdle /\ Registering
    /\ op' = [NoOp EXCEPT !.kind = "register", !.name = name, !.fn = func,
                          !.dup = (remote_functions[name] # NoFn),
                          !.params = remote_params]
    /\ ser_remote_functions' =
           SerialSystem_register(ser_remote_functions, name, func, remote_params)
    /\ IF backend = "mpi"
       THEN /\ remote_functions' =
                   MPISystem_register(remote_functions, name, func, remote_params)
            /\ pc' = pc
       ELSE IF remote_functions[name] = NoFn /\ RaySystem_remote_raises(remote_params)
       THEN /\ pc' = [p \in Procs |-> "failed"]
            /\ remote_functions' = remote_functions
       ELSE /\ remote_functions' =
                   RaySystem_register(remote_functions, name, func, remote_params)
            /\ pc' = pc
    /\ warned' = {}
    /\ UNCHANGED <<envVars, sideVars, ray_cfg, inited, devVars, actors, ser_actors,
                   actor_node_index, serH, H, A, origin, mpiVars, ret, ser_ret, tasks>>

\* register_actor(name, cls): a registered name draws warnings.warn on each system.
RegisterActor(name, cls) ==
    /\ inited /\ AllIdle /\ Registering
    /\ op' = [NoOp EXCEPT !.kind = "register_actor", !.name = name, !.fn = cls,
                          !.dup = (actors[name] # NoFn)]
    /\ ser_actors' = SerialSystem_register_actor(ser_actors, name, cls)
    /\ actors' = IF backend = "mpi" THEN MPISystem_register_actor(actors, name, cls)
                 ELSE RaySystem_register_actor(actors, name, cls)
    /\ warned' = (IF ser_actors[name] # NoFn THEN {"serial"} ELSE {})
                 \cup (IF actors[name] # NoFn THEN {backend} ELSE {})
    /\ UNCHANGED <<envVars, sideVars, ray_cfg, inited, devVars, remote_functions,
                   ser_remote_functions, actor_node_index, serH, H, A, origin, pc,
                   mpiVars, ret, ser_ret, tasks>>

\* ------------------------------------------------------------- put, call, get
NDev == Len(devices[CHOOSE p \in Procs : TRUE])

\* The program creates at most MaxHandles handles and actors, or only actors
\* without constructor arguments and with device_id omitted, at most two for
\* each device.
MaxActors == 2 * NDev
CanCreateHandle == Len(H) + Len(A) < MaxHandles
CanCreateActor(args, dev) ==
    \/ CanCreateHandle
    \/ /\ H = <<>> /\ Len(A) < MaxActors /\ args = <<>> /\ dev = 0
       /\ \A a \in 1 .. Len(A) : A[a].omitted

\* RaySystem.call with a device: the task it submits, or that it raises (the
\* name is not registered, or the assert fails).
RaySystem_call(name, args, dev, options) ==
    LET node == device_to_node[0][devices[0][dev]]
        node_key == RaySystem_node_key(node)
    IN  [raises |-> remote_functions[name] = NoFn
                    \/ ~RaySystem_call_assert(options, node_key),
         task |-> Task("task", remote_functions[name], args,
                       IF stock THEN options
                       ELSE RaySystem_call_options(options, node_key), dev)]

RaySystem_put(value, dev) == RaySystem_call("identity", <<value>>, dev, NoOptions)

\* put(value, device_id) with device_id = devices()[dev] on every process.
Put(v, dev) ==
    /\ inited /\ AllIdle /\ CanCreateHandle /\ dev \in 1 .. NDev
    /\ op' = [NoOp EXCEPT !.kind = "put", !.val = v, !.dev = dev, !.h = Len(H) + 1]
    /\ ser_ret' = SerialSystem_put(Val(v), SerialSystem_devices[1])
    /\ IF backend = "mpi"
       THEN /\ H' = Append(H, [r \in Ranks |->
                       MPISystem_put(r, device_to_node[r], Val(v), devices[r][dev])])
            /\ ret' = [r \in Ranks |->
                       MPISystem_put(r, device_to_node[r], Val(v), devices[r][dev])]
            /\ serH' = Append(serH, ser_ret')
            /\ origin' = Append(origin, op')
            /\ UNCHANGED <<pc, tasks>>
       ELSE LET c == RaySystem_put(Val(v), dev)
            IN  IF c.raises
                THEN /\ pc' = [p \in Procs |-> "failed"]
                     /\ UNCHANGED <<H, ret, serH, origin, tasks>>
                ELSE /\ tasks' = Append(tasks, c.task)
                     /\ H' = Append(H, [p \in Procs |-> ObjectRef(Len(tasks) + 1)])
                     /\ ret' = [p \in Procs |-> ObjectRef(Len(tasks) + 1)]
                     /\ serH' = Append(serH, ser_ret')
                     /\ origin' = Append(origin, op')
                     /\ pc' = pc
    /\ warned' = {}
    /\ UNCHANGED <<envVars, sideVars, ray_cfg, inited, devVars, regVars, actor_node_index, A,
                   mpiVars>>

\* A call the program may issue: the name is registered and the function
\* takes that many arguments.
Callable(name, args) ==
    /\ ser_remote_functions[name] # NoFn
    /\ ser_remote_functions[name] = "identity" => Len(args) = 1

SerArgs(args) == [j \in 1 .. Len(args) |-> SerArgObj(args[j])]

\* MPISystem.call enters on every rank: each rank starts _resolve_args.
MPIIssueCall(name, args, dev) ==
    /\ backend = "mpi" /\ inited /\ AllIdle /\ CanCreateHandle
    /\ dev \in 1 .. NDev /\ Callable(name, args)
    /\ op' = [NoOp EXCEPT !.kind = "call", !.name = name, !.args = args, !.dev = dev,
                          !.h = Len(H) + 1]
    /\ ser_ret' = SerialSystem_call(ser_remote_functions, name, SerArgs(args))
    /\ serH' = Append(serH, ser_ret')
    /\ origin' = Append(origin, op')
    /\ H' = Append(H, [r \in Ranks |-> Pending])
    /\ ret' = [r \in Ranks |-> Pending]
    /\ pc' = [r \in Ranks |-> "resolve"]
    /\ frame' = [r \in Ranks |-> NoFrame]
    /\ arrived' = {}
    /\ passed' = [r \in Ranks |-> 0]
    /\ invoked' = [r \in Ranks |-> 0]
    /\ warned' = {}
    /\ UNCHANGED <<envVars, sideVars, ray_cfg, inited, devVars, regVars, actor_node_index, A,
                   chan, tasks>>

Advance(f, target_rank, arg) ==
    [i |-> f.i + 1, target_rank |-> target_rank,
     resolved_args |-> Append(f.resolved_args, arg)]

\* One turn of the loop of MPISystem._resolve_args on rank r.  target_rank is
\* the function's local: it is bound by the first marker argument, and reading
\* it unbound raises.  comm.send may return at once or block until received.
MPIResolveArg(r) ==
    /\ backend = "mpi" /\ pc[r] = "resolve" /\ frame[r].i <= Len(op.args)
    /\ LET f == frame[r]
           arg == ArgObj(r, op.args[f.i])
       IN  IF arg.k = "rank"
           THEN IF get_target_rank(arg) = r
                THEN \E m \in chan :
                        /\ m.dst = r
                        /\ chan' = chan \ {m}
                        /\ frame' = [frame EXCEPT ![r] = Advance(f, get_target_rank(arg), m.obj)]
                        /\ pc' = [q \in Ranks |->
                                    IF q = m.src /\ pc[q] = "send" THEN "resolve" ELSE pc[q]]
                ELSE /\ frame' = [frame EXCEPT ![r] = Advance(f, get_target_rank(arg), arg)]
                     /\ UNCHANGED <<chan, pc>>
           ELSE IF f.target_rank = Unbound
           THEN /\ pc' = [pc EXCEPT ![r] = "failed"]
                /\ UNCHANGED <<chan, frame>>
           ELSE IF f.target_rank # r
           THEN /\ chan' = chan \cup {[src |-> r, dst |-> f.target_rank, obj |-> arg,
                                       id |-> Cardinality(chan) + 1]}
                /\ frame' = [frame EXCEPT ![r] = Advance(f, f.target_rank, arg)]
                /\ \E eager \in BOOLEAN :
                      pc' = [pc EXCEPT ![r] = IF eager THEN "resolve" ELSE "send"]
           ELSE /\ frame' = [frame EXCEPT ![r] = Advance(f, f.target_rank, arg)]
                /\ UNCHANGED <<chan, pc>>
    /\ UNCHANGED <<envVars, sideVars, ray_cfg, inited, devVars, regVars, actor_node_index, serH,
                   H, A, origin, op, arrived, passed, invoked, ret, ser_ret, warned,
                   tasks>>

\* Rank r ends the loop and enters comm.barrier().
MPIBarrier(r) ==
    /\ backend = "mpi" /\ pc[r] = "resolve" /\ frame[r].i > Len(op.args)
    /\ pc' = [pc EXCEPT ![r] = "barrier"]
    /\ arrived' = arrived \cup {r}
    /\ UNCHANGED <<envVars, sideVars, ray_cfg, inited, devVars, regVars, actor_node_index, serH,
                   H, A, origin, op, frame, chan, passed, invoked, ret, ser_ret, warned,
                   tasks>>

\* comm.barrier() returns on a rank once every rank has entered it.
BarrierOpen == arrived = Ranks

\* The rank a call is for: self._device_to_node[device_id].
MPICallTarget(r) == device_to_node[r][devices[r][op.dev]]

\* Rank r leaves the barrier and finishes MPISystem.call: the target rank
\* calls the registered function, the other ranks return None.
MPICall(r) ==
    /\ backend = "mpi" /\ op.kind = "call" /\ pc[r] = "barrier" /\ BarrierOpen
    /\ passed' = [passed EXCEPT ![r] = passed[r] + 1]
    /\ LET result == IF MPICallTarget(r) = r
                     THEN KernelApply(remote_functions[op.name], frame[r].resolved_args)
                     ELSE None
       IN  /\ invoked' = [invoked EXCEPT ![r] = IF MPICallTarget(r) = r THEN @ + 1 ELSE @]
           /\ IF result = Raised
              THEN /\ pc' = [pc EXCEPT ![r] = "failed"]
                   /\ UNCHANGED <<H, ret>>
              ELSE /\ pc' = [pc EXCEPT ![r] = "idle"]
                   /\ ret' = [ret EXCEPT ![r] = result]
                   /\ H' = [H EXCEPT ![op.h][r] = result]
    /\ UNCHANGED <<envVars, sideVars, ray_cfg, inited, devVars, regVars, actor_node_index, serH,
                   A, origin, op, frame, chan, arrived, ser_ret, warned, tasks>>

\* MPISystem.get([handle]) enters on every rank.
MPIIssueGet(h) ==
    /\ backend = "mpi" /\ inited /\ AllIdle /\ h \in 1 .. Len(H)
    /\ op' = [NoOp EXCEPT !.kind = "get", !.h = h]
    /\ ser_ret' = SerialSystem_get(serH[h])
    /\ pc' = [r \in Ranks |-> "bcast"]
    /\ ret' = [r \in Ranks |-> Pending]
    /\ warned' = {}
    /\ UNCHANGED <<envVars, sideVars, ray_cfg, inited, devVars, regVars, actor_node_index, serH,
                   H, A, origin, mpiVars, tasks>>

\* comm.bcast(obj, root) on rank r: the root keeps its own object, another
\* rank receives the object the root passes.
MPIGet(r) ==
    /\ backend = "mpi" /\ op.kind = "get" /\ pc[r] = "bcast"
    /\ LET obj == H[op.h][r]
           target_rank == MPISystem_get_root(r, obj)
       IN  ret' = [ret EXCEPT ![r] = IF target_rank = r THEN obj ELSE H[op.h][target_rank]]
    /\ pc' = [pc EXCEPT ![r] = "idle"]
    /\ UNCHANGED <<envVars, sideVars, ray_cfg, inited, devVars, regVars, actor_node_index, serH,
                   H, A, origin, op, mpiVars, ser_ret, warned, tasks>>

\* RaySystem.call(name, args, {}, devices()[dev], options) on the driver.
RayCall(name, args, dev, options) ==
    /\ backend = "ray" /\ inited /\ AllIdle /\ CanCreateHandle
    /\ dev \in 1 .. NDev /\ Callable(name, args)
    /\ op' = [NoOp EXCEPT !.kind = "call", !.name = name, !.args = args, !.dev = dev,
                          !.h = Len(H) + 1, !.opts = options.has_resources,
                          !.options = options]
    /\ ser_ret' = SerialSystem_call(ser_remote_functions, name, SerArgs(args))
    /\ LET c == RaySystem_call(name, [j \in 1 .. Len(args) |-> ArgObj(0, args[j])],
                               dev, options)
       IN  IF c.raises
           THEN /\ pc' = [p \in Procs |-> "failed"]
                /\ UNCHANGED <<H, ret, serH, origin, tasks>>
           ELSE /\ tasks' = Append(tasks, c.task)
                /\ H' = Append(H, [p \in Procs |-> ObjectRef(Len(tasks) + 1)])
                /\ ret' = [p \in Procs |-> ObjectRef(Len(tasks) + 1)]
                /\ serH' = Append(serH, ser_ret')
                /\ origin' = Append(origin, op')
                /\ pc' = pc
    /\ warned' = {}
    /\ UNCHANGED <<envVars, sideVars, ray_cfg, inited, devVars, regVars, actor_node_index, A,
                   mpiVars>>

\* What the scheduler passes for an argument: an ObjectRef is replaced by the
\* result of its task.
RayDeref(arg) == IF arg.k = "ref" THEN tasks[arg.v].result ELSE arg

RayReady(task) ==
    /\ \A j \in 1 .. Len(task.args) :
          task.args[j].k = "ref" => tasks[task.args[j].v].state # "pending"
    /\ task.kind = "method" => tasks[task.actor].state # "pending"

\* warmup's remote function: lambda x, y: x + y.
WarmupLambda(x, y) == Val(x.v + y.v)

RayResult(task) ==
    LET args == [j \in 1 .. Len(task.args) |-> RayDeref(task.args[j])]
    IN  IF \E j \in 1 .. Len(args) : args[j] = Raised THEN Raised
        ELSE IF task.kind = "actor" THEN ActorObj(task.fn)
        ELSE IF task.kind = "lambda" THEN WarmupLambda(args[1], args[2])
        ELSE IF task.kind = "method"
        THEN (IF tasks[task.actor].state = "done"
              THEN ActorMethod(tasks[task.actor].result, args) ELSE Raised)
        ELSE KernelApply(task.fn, args)

\* The scheduler runs pending task t on node n (a method runs where its actor is).
RayRunTask(t, n) ==
    /\ backend = "ray" /\ t \in 1 .. Len(tasks) /\ n \in 1 .. Len(ray_env.nodes)
    /\ tasks[t].state = "pending" /\ RayReady(tasks[t])
    /\ IF tasks[t].kind = "method"
       THEN ray_env.nodes[n].ip = tasks[tasks[t].actor].node
       ELSE Feasible(tasks[t], ray_env.nodes[n])
    /\ tasks' = [tasks EXCEPT ![t].state = IF RayResult(tasks[t]) = Raised
                                            THEN "error" ELSE "done",
                              ![t].node = ray_env.nodes[n].ip,
                              ![t].result = RayResult(tasks[t])]
    /\ UNCHANGED <<envVars, sideVars, ray_cfg, inited, devVars, regVars, actor_node_index, serH,
                   H, A, origin, op, pc, mpiVars, ret, ser_ret, warned>>

\* RaySystem.get: ray.get returns once the task has run, and raises its error.
RayGet(h) ==
    /\ backend = "ray" /\ inited /\ AllIdle /\ h \in 1 .. Len(H)
    /\ tasks[H[h][0].v].state # "pending"
    /\ op' = [NoOp EXCEPT !.kind = "get", !.h = h]
    /\ ser_ret' = SerialSystem_get(serH[h])
    /\ IF tasks[H[h][0].v].state = "error"
       THEN /\ pc' = [p \in Procs |-> "failed"]
            /\ ret' = ret
       ELSE /\ pc' = pc
            /\ ret' = [p \in Procs |-> tasks[H[h][0].v].result]
    /\ warned' = {}
    /\ UNCHANGED <<envVars, sideVars, ray_cfg, inited, devVars, regVars, actor_node_index, serH,
                   H, A, origin, mpiVars, tasks>>

\* ------------------------------------------------------------- actors
ActorArgLists == {<<>>} \cup {<<a>> : a \in ArgSpecs}

ActorEntry(obj, name, dev, ser) ==
    [obj |-> obj, name |-> name, omitted |-> (dev = 0),
     dev |-> [p \in Procs |-> dev], ser |-> ser]

\* MPISystem.make_actor enters on every rank; dev = 0 stands for device_id=None.
MPIIssueMakeActor(name, args, dev) ==
    /\ backend = "mpi" /\ inited /\ AllIdle /\ CanCreateActor(args, dev)
    /\ dev \in 0 .. NDev /\ ser_actors[name] # NoFn
    /\ op' = [NoOp EXCEPT !.kind = "make_actor", !.name = name, !.args = args,
                          !.dev = dev, !.h = Len(A) + 1]
    /\ ser_ret' = SerialSystem_make_actor(ser_actors, name, SerArgs(args))
    /\ A' = Append(A, ActorEntry([r \in Ranks |-> Pending], name, dev, ser_ret'))
    /\ ret' = [r \in Ranks |-> Pending]
    /\ pc' = [r \in Ranks |-> "resolve"]
    /\ frame' = [r \in Ranks |-> NoFrame]
    /\ arrived' = {}
    /\ passed' = [r \in Ranks |-> 0]
    /\ invoked' = [r \in Ranks |-> 0]
    /\ warned' = {}
    /\ UNCHANGED <<envVars, sideVars, ray_cfg, inited, devVars, regVars, actor_node_index, serH,
                   H, origin, chan, tasks>>

\* The device index make_actor uses on process p: the round-robin one when
\* device_id is None.
MakeActorDevice(p, dev) == IF dev = 0 THEN actor_node_index[p] + 1 ELSE dev

\* A make_actor that takes its round-robin device off the front of
\* self._devices and puts it at the back.
DevicesAfterMakeActor_rotate(devs, dev) ==
    IF dev = 0 /\ devs # <<>> THEN Append(Tail(devs), Head(devs)) ELSE devs

\* self._devices after make_actor: device_id = self._devices[...] and
\* len(self._devices) read the list.
DevicesAfterMakeActor(devs, dev) == devs

\* A make_actor that leaves self._actor_node_index where it is.
NextActorNodeIndex_stay(p, dev) == actor_node_index[p]

NextActorNodeIndex(p, dev) ==
    IF dev = 0 THEN (actor_node_index[p] + 1) % Len(devices[p])
    ELSE actor_node_index[p]

\* Rank r leaves the barrier and finishes MPISystem.make_actor.
MPIMakeActor(r) ==
    /\ backend = "mpi" /\ op.kind = "make_actor" /\ pc[r] = "barrier" /\ BarrierOpen
    /\ passed' = [passed EXCEPT ![r] = passed[r] + 1]
    /\ LET di == MakeActorDevice(r, op.dev)
           target_rank == device_to_node[r][devices[r][di]]
           obj == IF target_rank = r THEN ActorObj(actors[op.name])
                  ELSE MPITargetRank(target_rank)
       IN  /\ actor_node_index' =
                  [actor_node_index EXCEPT ![r] = NextActorNodeIndex(r, op.dev)]
           /\ invoked' = [invoked EXCEPT ![r] = IF target_rank = r THEN @ + 1 ELSE @]
           /\ A' = [A EXCEPT ![op.h].obj[r] = obj, ![op.h].dev[r] = di]
           /\ ret' = [ret EXCEPT ![r] = obj]
    /\ devices' = [devices EXCEPT ![r] = DevicesAfterMakeActor(@, op.dev)]
    /\ pc' = [pc EXCEPT ![r] = "idle"]
    /\ UNCHANGED <<envVars, sideVars, ray_cfg, inited, device_to_node, regVars, serH, H,
                   origin, op, frame, chan, arrived, ser_ret, warned, tasks>>

\* MPISystem.call_actor_method(actor, method, *args) enters on every rank.
MPIIssueCallActorMethod(a, args) ==
    /\ backend = "mpi" /\ inited /\ AllIdle /\ CanCreateHandle /\ a \in 1 .. Len(A)
    /\ op' = [NoOp EXCEPT !.kind = "call_actor_method", !.args = args, !.val = a,
                          !.h = Len(H) + 1]
    /\ ser_ret' = SerialSystem_call_actor_method(A[a].ser, SerArgs(args))
    /\ serH' = Append(serH, ser_ret')
    /\ origin' = Append(origin, op')
    /\ H' = Append(H, [r \in Ranks |-> Pending])
    /\ ret' = [r \in Ranks |-> Pending]
    /\ pc' = [r \in Ranks |-> "resolve"]
    /\ frame' = [r \in Ranks |-> NoFrame]
    /\ arrived' = {}
    /\ passed' = [r \in Ranks |-> 0]
    /\ invoked' = [r \in Ranks |-> 0]
    /\ warned' = {}
    /\ UNCHANGED <<envVars, sideVars, ray_cfg, inited, devVars, regVars, actor_node_index, A,
                   chan, tasks>>

\* A call_actor_method that takes every handle for the concrete object.
MPIHoldsActor_any(actor) == TRUE

\* not isinstance(actor, MPITargetRank)
MPIHoldsActor(actor) == actor.k # "rank"

\* Rank r leaves the barrier and finishes MPISystem.call_actor_method.
MPICallActorMethod(r) ==
    /\ backend = "mpi" /\ op.kind = "call_actor_method" /\ pc[r] = "barrier"
    /\ BarrierOpen
    /\ passed' = [passed EXCEPT ![r] = passed[r] + 1]
    /\ LET actor == A[op.val].obj[r]
           result == IF MPIHoldsActor(actor)
                     THEN ActorMethod(actor, frame[r].resolved_args)
                     ELSE None
       IN  /\ invoked' = [invoked EXCEPT ![r] = IF MPIHoldsActor(actor) THEN @ + 1 ELSE @]
           /\ IF result = Raised
              THEN /\ pc' = [pc EXCEPT ![r] = "failed"]
                   /\ UNCHANGED <<H, ret>>
              ELSE /\ pc' = [pc EXCEPT ![r] = "idle"]
                   /\ ret' = [ret EXCEPT ![r] = result]
                   /\ H' = [H EXCEPT ![op.h][r] = result]
    /\ UNCHANGED <<envVars, sideVars, ray_cfg, inited, devVars, regVars, actor_node_index, serH,
                   A, origin, op, frame, chan, arrived, ser_ret, warned, tasks>>

\* RaySystem.make_actor on the driver; dev = 0 stands for device_id=None, and
\* indexing an empty device list raises.
RayMakeActor(name, args, dev) ==
    /\ backend = "ray" /\ ~stock /\ inited /\ AllIdle /\ CanCreateActor(args, dev)
    /\ dev \in 0 .. NDev /\ ser_actors[name] # NoFn
    /\ op' = [NoOp EXCEPT !.kind = "make_actor", !.name = name, !.args = args,
                          !.dev = dev, !.h = Len(A) + 1]
    /\ ser_ret' = SerialSystem_make_actor(ser_actors, name, SerArgs(args))
    /\ IF NDev = 0
       THEN /\ pc' = [p \in Procs |-> "failed"]
            /\ UNCHANGED <<A, ret, tasks, actor_node_index, devices>>
       ELSE LET di == MakeActorDevice(0, dev)
                node == device_to_node[0][devices[0][di]]
                node_key == RaySystem_node_key(node)
                options == RaySystem_make_actor_options(node_key)
            IN  /\ actor_node_index' =
                       [actor_node_index EXCEPT ![0] = NextActorNodeIndex(0, dev)]
                /\ tasks' = Append(tasks,
                       Task("actor", actors[name],
                            [j \in 1 .. Len(args) |-> ArgObj(0, args[j])], options, di))
                /\ A' = Append(A, [ActorEntry([p \in Procs |-> ObjectRef(Len(tasks) + 1)],
                                              name, dev, ser_ret')
                                   EXCEPT !.dev = [p \in Procs |-> di]])
                /\ ret' = [p \in Procs |-> ObjectRef(Len(tasks) + 1)]
                /\ devices' = [devices EXCEPT ![0] = DevicesAfterMakeActor(@, dev)]
                /\ pc' = pc
    /\ warned' = {}
    /\ UNCHANGED <<envVars, sideVars, ray_cfg, inited, device_to_node, regVars, serH, H,
                   origin, mpiVars>>

\* RaySystem.call_actor_method: getattr(actor, method).remote(*args).
RayCallActorMethod(a, args) ==
    /\ backend = "ray" /\ inited /\ AllIdle /\ CanCreateHandle /\ a \in 1 .. Len(A)
    /\ op' = [NoOp EXCEPT !.kind = "call_actor_method", !.args = args, !.val = a,
                          !.h = Len(H) + 1]
    /\ ser_ret' = SerialSystem_call_actor_method(A[a].ser, SerArgs(args))
    /\ serH' = Append(serH, ser_ret')
    /\ origin' = Append(origin, op')
    /\ tasks' = Append(tasks,
           [Task("method", "", [j \in 1 .. Len(args) |-> ArgObj(0, args[j])],
                 NoOptions, 0) EXCEPT !.actor = A[a].obj[0].v])
    /\ H' = Append(H, [p \in Procs |-> ObjectRef(Len(tasks) + 1)])
    /\ ret' = [p \in Procs |-> ObjectRef(Len(tasks) + 1)]
    /\ warned' = {}
    /\ UNCHANGED <<envVars, sideVars, ray_cfg, inited, devVars, regVars, actor_node_index, A, pc,
                   mpiVars>>

\* ------------------------------------------------------------- specification
Next ==
    \/ MPIInit
    \/ RayInit
    \/ \E name \in Names, func \in Names, remote_params \in BOOLEAN :
          Register(name, func, remote_params)
    \/ \E name \in ActorNames, cls \in ActorClasses : RegisterActor(name, cls)
    \/ \E v \in PutValues, dev \in 1 .. NDev : Put(v, dev)
    \/ \E name \in Names, args \in ArgLists, dev \in 1 .. NDev :
          MPIIssueCall(name, args, dev)
    \/ \E r \in Ranks : MPIResolveArg(r)
    \/ \E r \in Ranks : MPIBarrier(r)
    \/ \E r \in Ranks : MPICall(r)
    \/ \E h \in 1 .. Len(H) : MPIIssueGet(h)
    \/ \E r \in Ranks : MPIGet(r)
    \/ \E name \in Names, args \in ArgLists, dev \in 1 .. NDev, options \in CallerOptions :
          RayCall(name, args, dev, options)
    \/ \E t \in 1 .. Len(tasks), n \in NodeIps : RayRunTask(t, n)
    \/ \E h \in 1 .. Len(H) : RayGet(h)
    \/ \E name \in ActorNames, args \in ActorArgLists, dev \in 0 .. NDev :
          MPIIssueMakeActor(name, args, dev)
    \/ \E r \in Ranks : MPIMakeActor(r)
    \/ \E a \in 1 .. Len(A), args \in ArgLists : MPIIssueCallActorMethod(a, args)
    \/ \E r \in Ranks : MPICallActorMethod(r)
    \/ \E name \in ActorNames, dev \in 0 .. NDev : RayMakeActor(name, <<>>, dev)
    \/ \E a \in 1 .. Len(A), args \in ArgLists : RayCallActorMethod(a, args)

Spec == Init /\ [][Next]_vars

\* ------------------------------------------------------------- put and get
\* Programs of register, put and get alone.
NextPutGet ==
    \/ MPIInit
    \/ RayInit
    \/ \E name \in Names, func \in Names, remote_params \in BOOLEAN :
          Register(name, func, remote_params)
    \/ \E v \in PutValues, dev \in 1 .. NDev : Put(v, dev)
    \/ \E h \in 1 .. Len(H) : MPIIssueGet(h)
    \/ \E r \in Ranks : MPIGet(r)
    \/ \E t \in 1 .. Len(tasks), n \in NodeIps : RayRunTask(t, n)
    \/ \E h \in 1 .. Len(H) : RayGet(h)

SpecPutGet == Init /\ [][NextPutGet]_vars

\* The kernel's identity function is registered under the name RaySystem.put
\* calls.
IdentityRegistered == remote_functions["identity"] = "identity"

\* put(v, d) has not raised, on any process, and the Serial put returned v.
PutReturned ==
    op.kind = "put" => /\ \A p \in Procs : pc[p] # "failed"
                       /\ ser_ret = Val(op.val)

\* get of a handle that put(v, d) returned gives v: on the Serial system, and
\* on every process that has returned from get, none having raised.
GetOfPutReturnsValue ==
    (op.kind = "get" /\ origin[op.h].kind = "put") =>
        /\ ser_ret = Val(origin[op.h].val)
        /\ \A p \in Procs : /\ pc[p] # "failed"
                             /\ pc[p] = "idle" => ret[p] = Val(origin[op.h].val)

C2_GetEqualsSerial ==
    (op.kind = "get" /\ AllIdle /\ origin[op.h].kind \in {"put", "call"}) =>
        \A p \in Procs : ret[p] = ser_ret

\* ------------------------------------------------------------- actors
\* Programs of register_actor, make_actor and, on the Message-Passing system,
\* call_actor_method.
NextActors ==
    \/ MPIInit
    \/ RayInit
    \/ \E name \in ActorNames, cls \in ActorClasses : RegisterActor(name, cls)
    \/ \E name \in ActorNames, args \in ActorArgLists, dev \in 0 .. NDev :
          MPIIssueMakeActor(name, args, dev)
    \/ \E r \in Ranks : MPIResolveArg(r)
    \/ \E r \in Ranks : MPIBarrier(r)
    \/ \E r \in Ranks : MPIMakeActor(r)
    \/ \E a \in 1 .. Len(A), args \in ArgLists : MPIIssueCallActorMethod(a, args)
    \/ \E r \in Ranks : MPICallActorMethod(r)
    \/ \E name \in ActorNames, dev \in 0 .. NDev : RayMakeActor(name, <<>>, dev)

SpecActors == Init /\ [][NextActors]_vars

\* The make_actor calls with device_id omitted that came before actor a.
OmittedBefore(a) == Cardinality({b \in 1 .. a - 1 : A[b].omitted})

\* Actor a is on the node of devices()[di], as process p has it: the rank of
\* that index holds the object and the others a marker, or the actor's
\* request names that node's key.
PlacedOn(a, p, di) ==
    IF backend = "mpi"
    THEN (A[a].obj[p].k = "actor") <=> (device_to_node[p][devices[p][di]] = p)
    ELSE /\ tasks[A[a].obj[p].v].dev = di
         /\ \E req \in tasks[A[a].obj[p].v].options.resources :
                req.key = devices[p][di].node_key

C3_WitnessRay ==
    /\ backend = "ray" /\ NDev > 1 /\ Len(A) = 2 * NDev /\ AllIdle
    /\ \A a \in 1 .. Len(A) : A[a].omitted
    /\ \A di \in 1 .. NDev :
          Cardinality({a \in 1 .. Len(A) : A[a].dev[0] = di}) = 2

\* ------------------------------------------------------------- registration
\* Programs of register and register_actor alone.
NextRegister ==
    \/ MPIInit
    \/ RayInit
    \/ \E name \in Names, func \in Names, remote_params \in BOOLEAN :
          Register(name, func, remote_params)
    \/ \E name \in ActorNames, cls \in ActorClasses : RegisterActor(name, cls)

SpecRegister == Init /\ [][NextRegister]_vars

\* A step keeps the entry of every registered name, and a name it registers
\* gets the function or class of the call the step is.
RegistryStep(registry, kind) ==
    \A n \in DOMAIN registry :
        /\ registry[n] # NoFn => registry'[n] = registry[n]
        /\ (registry[n] = NoFn /\ registry'[n] # NoFn) =>
               (op'.kind = kind /\ op'.name = n /\ registry'[n] = op'.fn)

\* A step that is a call with an already registered name raises on no process
\* and leaves the registries as they are.
DuplicateStep(registry, kind) ==
    (op' # op /\ op'.kind = kind /\ registry[op'.name] # NoFn) =>
        /\ UNCHANGED regVars
        /\ \A p \in Procs : pc'[p] # "failed"

C5_DuplicateWarns ==
    (op.kind \in {"register", "register_actor"} /\ op.dup) =>
        warned = {"serial", backend}

\* ------------------------------------------------------------- MPISystem.call
\* Every rank has left the call all ranks issued: it returned or it raised.
CallOver ==
    backend = "mpi" /\ op.kind = "call" /\ \A r \in Ranks : pc[r] \in {"idle", "failed"}

\* C6: on the Message-Passing backend, when all ranks issue the same
\* call(name, args, kwargs, d, options), the registered function is invoked
\* exactly once in the whole process group, on the rank that owns device d,
\* and that rank returns the function's result; every other rank does not
\* invoke the function and returns nothing.
C6_InvokedOnceOnOwner ==
    CallOver =>
        \A r \in Ranks :
            IF MPICallTarget(r) = r
            THEN /\ invoked[r] = 1
                 /\ pc[r] = "idle"
                 /\ ret[r] = KernelApply(remote_functions[op.name], frame[r].resolved_args)
            ELSE /\ invoked[r] = 0
                 /\ pc[r] = "idle"
                 /\ ret[r] = None

\* An argument of the call whose value another rank than r holds.
OwnedElsewhere(r, a) == ~a.lit /\ origin[a.x].kind = "put" /\ H[a.x][r].k = "rank"

\* C7: on the Message-Passing backend, when all ranks issue the same call
\* whose arguments include values owned by a rank other than the executing
\* rank, then after the argument-resolution round the executing rank holds
\* the concrete value of every argument: no 'lives elsewhere' marker remains
\* among the arguments passed to the function, each such value having been
\* sent by its owning rank and received by the executing rank.
C7_ArgumentsResolved ==
    \A r \in Ranks :
        (/\ backend = "mpi" /\ op.kind = "call" /\ MPICallTarget(r) = r
         /\ \E j \in 1 .. Len(op.args) : OwnedElsewhere(r, op.args[j])
         /\ pc[r] \in {"barrier", "idle"}) =>
            /\ \A j \in 1 .. Len(op.args) :
                  frame[r].resolved_args[j] = SerArgObj(op.args[j])
            /\ chan = {}

\* C8: on the Message-Passing backend, during each dispatched call every rank
\* of the process group passes exactly one global barrier, which comes after
\* that rank's argument-resolution round, and the owning rank does not invoke
\* the registered function before every rank has reached that barrier.
C8_OneBarrierPerCall ==
    /\ CallOver => \A r \in Ranks : passed[r] = 1
    /\ (backend = "mpi" /\ op.kind = "call") =>
          \A r \in Ranks :
              /\ passed[r] <= 1
              /\ r \in arrived => frame[r].i > Len(op.args)
              /\ passed[r] > 0 => r \in arrived
              /\ invoked[r] > 0 => BarrierOpen

NextPinning ==
    \/ RayInit
    \/ \E name \in Names, remote_params \in BOOLEAN :
          Register(name, name, remote_params)
    \/ \E name \in ActorNames, cls \in ActorClasses : RegisterActor(name, cls)
    \/ \E v \in LitValues, dev \in 1 .. NDev : Put(v, dev)
    \/ \E name \in Names, v \in LitValues, dev \in 1 .. NDev,
          options \in CallerOptions : RayCall(name, <<Lit(v)>>, dev, options)
    \/ \E name \in ActorNames, dev \in 0 .. NDev : RayMakeActor(name, <<>>, dev)
    \/ \E t \in 1 .. Len(tasks), n \in NodeIps : RayRunTask(t, n)

\* The program runs on RaySystem.
InitRay == Init /\ backend = "ray"

SpecPinning == InitRay /\ [][NextPinning]_vars

\* The nodes of the cluster that can satisfy the requests of task t.
FeasibleNodes(t) ==
    {n \in 1 .. Len(ray_env.nodes) : Feasible(tasks[t], ray_env.nodes[n])}

\* Task or actor t was dispatched for devices()[di]: it asks for a small
\* positive fraction of the resource key of that device's node, that node and
\* no other can satisfy its requests, and it has run nowhere else.
PinnedTo(t, di) ==
    LET node == device_to_node[0][devices[0][di]]
    IN  /\ \E req \in tasks[t].options.resources :
              /\ req.key = devices[0][di].node_key
              /\ req.key = RaySystem_node_key(node)
              /\ req.amt > 0 /\ req.amt < UnitsPerOne
        /\ FeasibleNodes(t) = {n \in 1 .. Len(ray_env.nodes) : ray_env.nodes[n] = node}
        /\ FeasibleNodes(t) # {}
        /\ tasks[t].state # "pending" => tasks[t].node = RaySystem_node_ip(node)

\* C10: on the Cluster-Scheduler backend, for every device d of devices(),
\* every task dispatched by call(name, args, kwargs, d, options) or by
\* put(v, d), and every actor created by make_actor with device d (given or
\* chosen round-robin), carries a request for a small positive fraction of d's
\* node resource key, and distinct devices have distinct node keys, so exactly
\* d's node and no other can satisfy the request; put goes through the same
\* call path as compute.
C10_PinnedToDeviceNode ==
    backend = "ray" =>
        /\ \A h \in 1 .. Len(H) :
              origin[h].kind \in {"put", "call"} =>
                  /\ tasks[H[h][0].v].kind = "task"
                  /\ PinnedTo(H[h][0].v, origin[h].dev)
        /\ \A h \in 1 .. Len(H) :
              origin[h].kind = "put" =>
                  tasks[H[h][0].v] =
                      [RaySystem_call("identity", <<Val(origin[h].val)>>, origin[h].dev,
                                      NoOptions).task
                       EXCEPT !.state = tasks[H[h][0].v].state,
                              !.node = tasks[H[h][0].v].node,
                              !.result = tasks[H[h][0].v].result]
        /\ \A a \in 1 .. Len(A) :
              /\ tasks[A[a].obj[0].v].kind = "actor"
              /\ PinnedTo(A[a].obj[0].v, A[a].dev[0])
        /\ \A i, j \in 1 .. NDev :
              i # j => devices[0][i].node_key # devices[0][j].node_key

\* On a cluster of several devices a put, a call with resources among its
\* options and an actor, each for the last device, have run on its node.
C10_Witness ==
    /\ backend = "ray" /\ NDev > 1
    /\ \E h \in 1 .. Len(H) :
          /\ origin[h].kind = "call" /\ origin[h].opts /\ origin[h].dev = NDev
          /\ tasks[H[h][0].v].state = "done"
          /\ tasks[H[h][0].v].node = RaySystem_node_ip(device_to_node[0][devices[0][NDev]])
    /\ \E a \in 1 .. Len(A) :
          /\ A[a].dev[0] = NDev
          /\ tasks[A[a].obj[0].v].state = "done"

\* ------------------------------------------------------------- caller options
\* A top-level scheduling option that is no resource request.
OtherKey == [res |-> "max_retries", ip |-> 0]

\* Options whose "resources" ask for a node's own key, options with a node's
\* key at the top level, and options with another top-level entry.
CollidingOptions ==
    {[has_resources |-> TRUE, resources |-> {[key |-> NodeKey(ip), amt |-> UnitsPerOne]},
      keys |-> {}] : ip \in NodeIps}
    \cup {[has_resources |-> TRUE, resources |-> {[key |-> CustomKey, amt |-> UnitsPerOne]},
           keys |-> {NodeKey(ip)}] : ip \in NodeIps}
    \cup {[has_resources |-> TRUE, resources |-> {[key |-> CustomKey, amt |-> UnitsPerOne]},
           keys |-> {OtherKey}]}

\* The program runs on RaySystem or on RaySystemStockScheduler.
InitOptions == InitSystem(RayEnvs) /\ backend = "ray" /\ stock \in BOOLEAN /\ SideIdle

\* Programs of calls with scheduling options of the caller's.
NextOptions ==
    \/ RayInit
    \/ \E name \in Names, remote_params \in BOOLEAN :
          Register(name, name, remote_params)
    \/ \E name \in Names, v \in LitValues, dev \in 1 .. NDev,
          options \in CallerOptions \cup CollidingOptions :
          RayCall(name, <<Lit(v)>>, dev, options)
    \/ \E t \in 1 .. Len(tasks), n \in NodeIps : RayRunTask(t, n)

SpecOptions == InitOptions /\ [][NextOptions]_vars

\* C11: on the Cluster-Scheduler backend, call with a non-null device merges
\* the placement tag into the caller-supplied scheduling options: every option
\* the caller supplied, including every entry the caller put under
\* "resources", is still present with its value in the options the task is
\* dispatched with, next to the injected tag.
C11_OptionsMerged ==
    (backend = "ray" /\ ~stock) =>
        \A h \in 1 .. Len(H) :
            origin[h].kind = "call" =>
                LET given == origin[h].options
                    sent == tasks[H[h][0].v].options
                IN  /\ given.keys \subseteq sent.keys
                    /\ given.resources \subseteq sent.resources
                    /\ \E req \in sent.resources :
                          req.key = devices[0][origin[h].dev].node_key

\* The options of the call being run collide with the tag of its device.
OptionsCollide ==
    LET node_key == devices[0][op.dev].node_key
    IN  \/ node_key \in op.options.keys
        \/ \E req \in op.options.resources : req.key = node_key

\* C12: on the Cluster-Scheduler backend, if the caller-supplied options of a
\* call already request the resource tag of the target device (a key collision
\* with the tag the backend injects), the call fails and no task is dispatched.
C12_CollisionFails ==
    (backend = "ray" /\ op.kind = "call" /\ OptionsCollide) =>
        /\ \A p \in Procs : pc[p] = "failed"
        /\ Len(H) < op.h
        /\ tasks = <<>>

\* ------------------------------------------------------------- warmup
\* 10 ** 6, the bound of warmup's assert.
WarmupLimit == 1000000

\* The longest warmup the program asks for that passes the assert.
MaxWarmup == 3

\* The arguments of warmup: negative, zero, short runs, and the rejected ones.
WarmupInputs == ((0 - 1) .. MaxWarmup) \cup {WarmupLimit, WarmupLimit + 1}

\* _a and _b are random.randint(0, 1000).
WarmupValues == {0, 1000}

\* A warmup that accepts every n.
WarmupAssert_none(n) == TRUE

\* assert n < 10 ** 6
WarmupAssert(n) == n < WarmupLimit

\* RaySystem.warmup(n) up to the loop: returns at once for n <= 0, fails on
\* the assert for n >= 10 ** 6.
Warmup(n) ==
    /\ backend = "ray" /\ inited /\ AllIdle /\ warmup.pc = "none"
    /\ IF n <= 0
       THEN /\ warmup' = [NoWarmup EXCEPT !.pc = "done", !.n = n]
            /\ pc' = pc
       ELSE IF ~WarmupAssert(n)
       THEN /\ warmup' = [NoWarmup EXCEPT !.pc = "failed", !.n = n]
            /\ pc' = [p \in Procs |-> "failed"]
       ELSE /\ warmup' = [NoWarmup EXCEPT !.pc = "loop", !.n = n]
            /\ pc' = [p \in Procs |-> "warmup"]
    /\ op' = [NoOp EXCEPT !.kind = "warmup", !.val = n]
    /\ UNCHANGED notWarmup
    /\ UNCHANGED <<envVars, ray_cfg, inited, devVars, regVars, actor_node_index, serH,
                   H, A, origin, mpiVars, ret, ser_ret, warned, tasks>>

\* Iteration i of the loop up to get: put(_a, devices[d0]), put(_b, devices[d1])
\* and the remote lambda on the two references; a put that raises ends warmup.
WarmupIter(a, b) ==
    /\ backend = "ray" /\ warmup.pc = "loop"
    /\ LET num_devices == Len(devices[0])
           d0 == warmup.i % num_devices
           d1 == (warmup.i + 1) % num_devices
           put_a == RaySystem_put(Val(a), d0 + 1)
           put_b == RaySystem_put(Val(b), d1 + 1)
           t == Len(tasks)
           r == Task("lambda", "", <<ObjectRef(t + 1), ObjectRef(t + 2)>>, NoOptions, 0)
       IN  IF put_a.raises \/ put_b.raises
           THEN /\ warmup' = [warmup EXCEPT !.pc = "failed"]
                /\ pc' = [p \in Procs |-> "failed"]
                /\ tasks' = tasks
           ELSE /\ warmup' = [warmup EXCEPT !.pc = "get", !.a = t + 1, !.b = t + 2,
                                            !.r = t + 3]
                /\ tasks' = tasks \o <<put_a.task, put_b.task, r>>
                /\ pc' = pc
    /\ UNCHANGED notWarmup
    /\ UNCHANGED <<envVars, ray_cfg, inited, devVars, regVars, actor_node_index, serH,
                   H, A, origin, op, mpiVars, ret, ser_ret, warned>>

\* _v = self.get(...) returns once the lambda has run; then the next i, or
\* warmup returns.
WarmupGet ==
    /\ backend = "ray" /\ warmup.pc = "get"
    /\ tasks[warmup.r].state # "pending"
    /\ IF tasks[warmup.r].state = "error"
       THEN /\ warmup' = [warmup EXCEPT !.pc = "failed"]
            /\ pc' = [p \in Procs |-> "failed"]
       ELSE IF warmup.i + 1 = warmup.n
       THEN /\ warmup' = [warmup EXCEPT !.pc = "done", !.i = warmup.i + 1]
            /\ pc' = [p \in Procs |-> "idle"]
       ELSE /\ warmup' = [warmup EXCEPT !.pc = "loop", !.i = warmup.i + 1]
            /\ pc' = pc
    /\ UNCHANGED notWarmup
    /\ UNCHANGED <<envVars, ray_cfg, inited, devVars, regVars, actor_node_index, serH,
                   H, A, origin, op, mpiVars, ret, ser_ret, warned, tasks>>

\* Programs that initialise the system, register functions and then warm up,
\* with two draws that differ in every iteration.
NextWarmup ==
    \/ RayInit
    \/ \E name \in Names, remote_params \in BOOLEAN :
          SideIdle /\ Register(name, name, remote_params)
    \/ \E n \in WarmupInputs : Warmup(n)
    \/ \E a \in WarmupValues : \E b \in WarmupValues \ {a} : WarmupIter(a, b)
    \/ WarmupGet
    \/ \E t \in 1 .. Len(tasks), n \in NodeIps : RayRunTask(t, n)

SpecWarmup == InitRay /\ [][NextWarmup]_vars

\* The iterations warmup has started.
WarmupStarted == IF warmup.pc \in {"get"} THEN warmup.i + 1 ELSE warmup.i

\* Iteration i put one value on devices()[i mod N] and one on
\* devices()[(i+1) mod N], each pinned to its device's node, and dispatched
\* the sum of the two.
WarmupIteration(i) ==
    LET N == Len(devices[0])
        ta == tasks[3 * i + 1]
        tb == tasks[3 * i + 2]
        tr == tasks[3 * i + 3]
    IN  /\ ta.fn = "identity" /\ ta.dev = (i % N) + 1 /\ ta.args[1].k = "val"
        /\ tb.fn = "identity" /\ tb.dev = ((i + 1) % N) + 1 /\ tb.args[1].k = "val"
        /\ PinnedTo(3 * i + 1, ta.dev) /\ PinnedTo(3 * i + 2, tb.dev)
        /\ tr.kind = "lambda"
        /\ tr.args = <<ObjectRef(3 * i + 1), ObjectRef(3 * i + 2)>>

\* The result of iteration i was resolved: the two values and their sum.
WarmupResolved(i) ==
    /\ \A t \in 3 * i + 1 .. 3 * i + 3 : tasks[t].state = "done"
    /\ tasks[3 * i + 3].result =
          Val(tasks[3 * i + 1].args[1].v + tasks[3 * i + 2].args[1].v)

\* C13 as stated: on the Cluster-Scheduler backend with N devices, warmup(n)
\* for 0 < n < 10^6 runs exactly n iterations, iteration i putting one value on
\* devices()[i mod N] and one on devices()[(i+1) mod N] and resolving the
\* result, and then returns; here without the failure of the first put.
C13_WarmupRuns ==
    (warmup.pc # "none" /\ 0 < warmup.n /\ warmup.n < WarmupLimit) =>
        /\ warmup.pc # "failed"
        /\ \A p \in Procs : pc[p] # "failed"

\* C13: on the Cluster-Scheduler backend with N devices and the identity
\* function registered, warmup(n) for 0 < n < 10^6 runs exactly n iterations,
\* iteration i (0-based) putting one value on devices()[i mod N] and one on
\* devices()[(i+1) mod N] and resolving the result, and returns only then;
\* warmup(n) for n >= 10^6 is rejected before any task is dispatched;
\* warmup(n) for n <= 0 dispatches nothing and returns.
C13_Warmup ==
    warmup.pc # "none" =>
        IF warmup.n <= 0 THEN warmup.pc = "done" /\ tasks = <<>>
        ELSE IF warmup.n >= WarmupLimit
        THEN warmup.pc = "failed" /\ tasks = <<>> /\ \A p \in Procs : pc[p] = "failed"
        ELSE remote_functions["identity"] # NoFn =>
               /\ warmup.pc \in {"loop", "get", "done"}
               /\ warmup.i <= warmup.n
               /\ warmup.pc = "loop" => warmup.i < warmup.n
               /\ Len(tasks) = 3 * WarmupStarted
               /\ \A i \in 0 .. WarmupStarted - 1 : WarmupIteration(i)
               /\ \A i \in 0 .. warmup.i - 1 : WarmupResolved(i)
               /\ warmup.pc = "done" => warmup.i = warmup.n

\* A warmup of MaxWarmup iterations over NNodes devices has returned.
C13_Witness ==
    /\ warmup.pc = "done" /\ warmup.n = MaxWarmup /\ Len(tasks) = 3 * MaxWarmup
    /\ Len(devices[0]) = NNodes

\* ------------------------------------------------------------- shutdown
\* The program calls shutdown at most this often.
MaxShutdowns == 2

\* The clusters of RayEnvs with a Ray runtime that something else started
\* before the system was created.
RunningEnvs == {[e EXCEPT !.initialized = TRUE, !.foreign = TRUE] : e \in RayEnvs}

\* RaySystem.shutdown: ray.shutdown() if self._manage_ray.
RaySystem_shutdown(env, cfg) ==
    IF cfg.manage_ray THEN [env EXCEPT !.initialized = FALSE] ELSE env

\* SerialSystem.shutdown and MPISystem.shutdown: pass.
MPISystem_shutdown(env) == env

\* shutdown() between two operations of the program, before init as well;
\* after it the program only calls shutdown again.
Shutdown ==
    /\ \A p \in Procs : pc[p] \in {"idle", "down"}
    /\ shutdowns < MaxShutdowns
    /\ shutdowns' = shutdowns + 1
    /\ ray_env' = IF backend = "ray" THEN RaySystem_shutdown(ray_env, ray_cfg)
                  ELSE MPISystem_shutdown(ray_env)
    /\ pc' = [p \in Procs |-> "down"]
    /\ op' = [NoOp EXCEPT !.kind = "shutdown"]
    /\ UNCHANGED notLifecycle
    /\ UNCHANGED <<backend, proc_name, stock, ray_cfg, inited, devVars, regVars,
                   actor_node_index, serH, H, A, origin, mpiVars, ret, ser_ret, warned,
                   tasks>>

\* The system is created on a cluster with or without a running Ray runtime.
InitLifecycle == InitSystem(RayEnvs \cup RunningEnvs) /\ stock = FALSE /\ SideIdle

\* Programs of register, put and get with calls of shutdown.
NextLifecycle ==
    \/ NextPutGet
    \/ Shutdown

SpecLifecycle == InitLifecycle /\ [][NextLifecycle]_vars

\* C14: on every backend, shutdown can be called in any state, including
\* before any successful init and repeatedly, without failing, and it releases
\* only cluster resources the backend itself acquired: the Cluster-Scheduler
\* backend never shuts down a scheduler runtime that was already running when
\* the backend was created and that the backend did not start.
C14_ShutdownSafe ==
    /\ op.kind = "shutdown" => \A p \in Procs : pc[p] # "failed"
    /\ (backend = "ray" /\ ray_env.foreign) => ray_env.initialized

\* ------------------------------------------------------------- kernel: RNG
\* The kernel's functions are the same under every system: they are studied
\* with one system, on one host, before init.
InitKernel ==
    InitSystem(RayEnvs) /\ backend = "mpi" /\ proc_name = [r \in Ranks |-> 0]
    /\ stock = FALSE

\* The two RNG objects of the program, and the blocks each of them samples.
RngIds == {1, 2}
MaxBlocks == 2

\* PCG64 stands with a state of PcgBits bits: a linear congruential generator
\* of full period, seeded from the seed; jumped(j) advances it by j strides.
PcgBits == 4
PcgModulus == 2 ^ PcgBits
PcgMult == 5
PcgInc == 3
PcgStride == 4

PCG64(seed) == (seed * PcgMult + PcgInc) % PcgModulus

PcgStep(state) == (PcgMult * state + PcgInc) % PcgModulus

RECURSIVE PcgAdvance(_, _)
PcgAdvance(state, n) == IF n = 0 THEN state ELSE PcgAdvance(PcgStep(state), n - 1)

jumped(state, jump_index) == PcgAdvance(state, jump_index * PcgStride)

\* Generator(PCG64(seed).jumped(jump_index)): a new generator, by its state.
block_rng(seed, jump_index) == jumped(PCG64(seed), jump_index)

\* seed=None, and what random.getrandbits(128) may give.
NoSeed == 0 - 1
Seeds == {1, 2}
SeedArgs == Seeds \cup {NoSeed}
RandomBits == {1, 3}
JumpArgs == {0, 1}

\* An RNG that draws its seed whatever it is given.
RNG_init_unseeded(seed, jump_index, getrandbits) ==
    [seed |-> getrandbits, jump_index |-> jump_index]

\* RNG.__init__(seed, jump_index)
RNG_init(seed, jump_index, getrandbits) ==
    [seed |-> IF seed = NoSeed THEN getrandbits ELSE seed, jump_index |-> jump_index]

\* A new_block_rng_params that leaves jump_index alone.
RNG_new_block_rng_params_same(r) ==
    [params |-> <<r.seed, r.jump_index>>, rng |-> r]

\* RNG.new_block_rng_params, run by one thread from start to end.
RNG_new_block_rng_params(r) ==
    [params |-> <<r.seed, r.jump_index>>,
     rng |-> [r EXCEPT !.jump_index = r.jump_index + 1]]

\* The i-th raw draw of a generator in the given state.
Draw(state, i) == PcgAdvance(state, i)

\* Floats are held in quarters; astype(int64) truncates toward zero.
Trunc(q) == IF q >= 0 THEN q \div 4 ELSE 0 - ((0 - q) \div 4)

\* rng.random(size), rng.integers(high, size=size), rng.normal(size=size): one
\* value from one raw draw, and the dtype the generator gives it.
Sample(rfunc_name, rfunc_args, raw) ==
    IF rfunc_name = "integers" THEN raw % rfunc_args.high
    ELSE IF rfunc_name = "random" THEN raw % 4
    ELSE raw - PcgModulus \div 2
NativeDtype(rfunc_name) == IF rfunc_name = "integers" THEN "int64" ELSE "float64"

astype(block, dtype) ==
    IF dtype = block.dtype THEN block
    ELSE [block EXCEPT !.dtype = dtype,
                       !.data = [i \in DOMAIN block.data |->
                                    IF dtype = "int64" THEN Trunc(block.data[i])
                                    ELSE 4 * block.data[i]]]

\* KernelCls.random_block
random_block(rng_params, rfunc_name, rfunc_args, shape, dtype) ==
    LET generator == block_rng(rng_params[1], rng_params[2])
        result == [shape |-> shape, dtype |-> NativeDtype(rfunc_name),
                   data |-> [i \in 1 .. rfunc_args.size |->
                                Sample(rfunc_name, rfunc_args, Draw(generator, i))]]
    IN  IF rfunc_name \notin {"random", "integers"} THEN astype(result, dtype)
        ELSE result

\* What the program samples: the distribution, its arguments, a shape of as
\* many entries as it draws, and the dtype.
Requests ==
    {[rfunc_name |-> "random", rfunc_args |-> [high |-> 0, size |-> 2],
      shape |-> <<2>>, dtype |-> "float64"],
     [rfunc_name |-> "integers", rfunc_args |-> [high |-> 3, size |-> 2],
      shape |-> <<1, 2>>, dtype |-> "int64"],
     [rfunc_name |-> "normal", rfunc_args |-> [high |-> 0, size |-> 2],
      shape |-> <<2, 1>>, dtype |-> "int64"],
     [rfunc_name |-> "normal", rfunc_args |-> [high |-> 0, size |-> 1],
      shape |-> <<1>>, dtype |-> "float64"]}

\* The threads of the process that call new_block_rng_params.
NThreads == 2
Threads == 1 .. NThreads
NoThread == [pc |-> "out", params |-> <<>>, loaded |-> 0]

\* The RNG objects as created, each from its arguments.
InitRng ==
    /\ InitKernel /\ SystemIdle /\ UpdateIdle /\ PivotIdle /\ KernelIdle /\ BlockIdle
    /\ rng_args \in [RngIds -> [seed : SeedArgs, jump_index : JumpArgs]]
    /\ \E getrandbits \in [RngIds -> RandomBits] :
          rng = [g \in RngIds |->
                    RNG_init(rng_args[g].seed, rng_args[g].jump_index, getrandbits[g])]
    /\ handed = [g \in RngIds |-> <<>>]
    /\ requests = <<>>
    /\ blocks = [g \in RngIds |-> <<>>]
    /\ rng_thr = [t \in Threads |-> NoThread]

\* new_block_rng_params() on RNG g, the calls one after the other.
NewBlockRngParams(g) ==
    /\ Len(handed[g]) < MaxBlocks
    /\ rng' = [rng EXCEPT ![g] = RNG_new_block_rng_params(rng[g]).rng]
    /\ handed' = [handed EXCEPT ![g] = Append(@, RNG_new_block_rng_params(rng[g]).params)]
    /\ UNCHANGED <<rng_args, requests, blocks, rng_thr>>
    /\ UNCHANGED notRng
    /\ UNCHANGED sysVars

\* random_block with the next params RNG g was handed; the k-th block is
\* sampled with the k-th request, whichever RNG samples it.
RandomBlock(g, req) ==
    LET k == Len(blocks[g]) + 1
    IN  /\ k <= Len(handed[g])
        /\ IF k <= Len(requests) THEN req = requests[k] /\ requests' = requests
           ELSE requests' = Append(requests, req)
        /\ blocks' = [blocks EXCEPT ![g] =
                         Append(@, random_block(handed[g][k], req.rfunc_name,
                                                req.rfunc_args, req.shape, req.dtype))]
        /\ UNCHANGED <<rng_args, rng, handed, rng_thr>>
        /\ UNCHANGED notRng
        /\ UNCHANGED sysVars

NextRng ==
    \/ \E g \in RngIds : NewBlockRngParams(g)
    \/ \E g \in RngIds, req \in Requests : RandomBlock(g, req)

SpecRng == InitRng /\ [][NextRng]_vars

\* C15: for one RNG state with seed s and initial jump index j0, any sequence
\* of k calls of new_block_rng_params returns (s, j0), (s, j0+1), ...,
\* (s, j0+k-1): the seed never changes, jump_index never decreases, and no
\* (seed, jump_index) pair is handed out twice.
C15_ParamsInOrder ==
    \A g \in RngIds :
        LET s == IF rng_args[g].seed = NoSeed THEN rng[g].seed ELSE rng_args[g].seed
            j0 == rng_args[g].jump_index
        IN  /\ rng[g].seed = s
            /\ rng[g].jump_index = j0 + Len(handed[g])
            /\ \A i \in 1 .. Len(handed[g]) : handed[g][i] = <<s, j0 + i - 1>>
            /\ \A i, j \in 1 .. Len(handed[g]) : handed[g][i] = handed[g][j] => i = j

\* An RNG has handed out MaxBlocks params, starting from a jump index above 0.
C15_Witness ==
    \E g \in RngIds :
        /\ Len(handed[g]) = MaxBlocks /\ MaxBlocks > 1
        /\ rng_args[g].jump_index > 0

SharedRng == 1

\* The calls of new_block_rng_params started on the shared RNG.
CallsStarted ==
    Len(handed[SharedRng]) + Cardinality({t \in Threads : rng_thr[t].pc # "out"})

\* params = self.seed, self.jump_index
ThreadParams(t) ==
    /\ rng_thr[t].pc = "out" /\ CallsStarted < MaxBlocks
    /\ rng_thr' = [rng_thr EXCEPT ![t] =
                      [pc |-> "load", loaded |-> 0,
                       params |-> <<rng[SharedRng].seed, rng[SharedRng].jump_index>>]]
    /\ UNCHANGED <<rng_args, rng, handed, requests, blocks>>
    /\ UNCHANGED notRng
    /\ UNCHANGED sysVars

\* self.jump_index += 1: the read of the attribute.
ThreadLoad(t) ==
    /\ rng_thr[t].pc = "load"
    /\ rng_thr' = [rng_thr EXCEPT ![t].pc = "store",
                                  ![t].loaded = rng[SharedRng].jump_index]
    /\ UNCHANGED <<rng_args, rng, handed, requests, blocks>>
    /\ UNCHANGED notRng
    /\ UNCHANGED sysVars

\* self.jump_index += 1: the store of the sum; then return params.
ThreadStore(t) ==
    /\ rng_thr[t].pc = "store"
    /\ rng' = [rng EXCEPT ![SharedRng].jump_index = rng_thr[t].loaded + 1]
    /\ handed' = [handed EXCEPT ![SharedRng] = Append(@, rng_thr[t].params)]
    /\ rng_thr' = [rng_thr EXCEPT ![t] = NoThread]
    /\ UNCHANGED <<rng_args, requests, blocks>>
    /\ UNCHANGED notRng
    /\ UNCHANGED sysVars

NextRngThreads ==
    \/ \E t \in Threads : ThreadParams(t)
    \/ \E t \in Threads : ThreadLoad(t)
    \/ \E t \in Threads : ThreadStore(t)

SpecRngThreads == InitRng /\ [][NextRngThreads]_vars

\* C16: when two or more threads of one process call new_block_rng_params on
\* the same RNG state concurrently, the read of jump_index and its increment
\* are atomic: no two calls return the same jump_index, and after m calls
\* jump_index equals its initial value plus m.
C16_Atomic ==
    /\ \A i, j \in 1 .. Len(handed[SharedRng]) :
          handed[SharedRng][i][2] = handed[SharedRng][j][2] => i = j
    /\ (\A t \in Threads : rng_thr[t].pc = "out") =>
          rng[SharedRng].jump_index =
              rng_args[SharedRng].jump_index + Len(handed[SharedRng])

\* ------------------------------------------------------------- make_actor, threads
NoMakeActor == [pc |-> "out", name |-> "", sel |-> 0, loaded |-> 0]

\* A RaySystem whose driver runs make_actor on several threads.
InitActorThreads ==
    /\ InitSystem(RayEnvs) /\ backend = "ray" /\ stock = FALSE
    /\ warmup = NoWarmup /\ shutdowns = 0
    /\ mk_thr = [t \in Threads |-> NoMakeActor]
    /\ RngIdle /\ UpdateIdle /\ PivotIdle /\ KernelIdle /\ BlockIdle

\* make_actor(name) with device_id omitted, on thread t:
\* device_id = self._devices[self._actor_node_index].
MakeActorSelect(t, name) ==
    /\ backend = "ray" /\ ~stock /\ inited /\ AllIdle
    /\ actors[name] # NoFn /\ Len(devices[0]) > 0
    /\ mk_thr[t].pc = "out"
    /\ mk_thr' = [mk_thr EXCEPT ![t] = [pc |-> "load", name |-> name,
                                         sel |-> actor_node_index[0], loaded |-> 0]]
    /\ UNCHANGED notActorThreads
    /\ UNCHANGED sysVars

\* self._actor_node_index = (self._actor_node_index + 1) % len(self._devices):
\* the read of the index.
MakeActorLoad(t) ==
    /\ mk_thr[t].pc = "load"
    /\ mk_thr' = [mk_thr EXCEPT ![t].pc = "store", ![t].loaded = actor_node_index[0]]
    /\ UNCHANGED notActorThreads
    /\ UNCHANGED sysVars

\* The store of the advanced index, and the rest of make_actor: the actor is
\* submitted, pinned to the node of the selected device.
MakeActorStore(t) ==
    /\ mk_thr[t].pc = "store"
    /\ mk_thr' = [mk_thr EXCEPT ![t].pc = "done"]
    /\ actor_node_index' =
           [actor_node_index EXCEPT ![0] = (mk_thr[t].loaded + 1) % Len(devices[0])]
    /\ LET di == mk_thr[t].sel + 1
           node == device_to_node[0][devices[0][di]]
           options == RaySystem_make_actor_options(RaySystem_node_key(node))
           name == mk_thr[t].name
       IN  /\ tasks' = Append(tasks, Task("actor", actors[name], <<>>, options, di))
           /\ A' = Append(A, [ActorEntry([p \in Procs |-> ObjectRef(Len(tasks) + 1)],
                                           name, 0,
                                           SerialSystem_make_actor(ser_actors, name, <<>>))
                              EXCEPT !.dev = [p \in Procs |-> di]])
    /\ UNCHANGED notActorThreads
    /\ UNCHANGED <<envVars, ray_cfg, inited, devVars, regVars, serH, H, origin, op, pc,
                   mpiVars, ret, ser_ret, warned>>

NextActorThreads ==
    \/ RayInit
    \/ \E name \in ActorNames, cls \in ActorClasses : RegisterActor(name, cls)
    \/ \E t \in Threads, name \in ActorNames : MakeActorSelect(t, name)
    \/ \E t \in Threads : MakeActorLoad(t)
    \/ \E t \in Threads : MakeActorStore(t)
    \/ \E t \in 1 .. Len(tasks), n \in NodeIps : RayRunTask(t, n)

SpecActorThreads == InitActorThreads /\ [][NextActorThreads]_vars

\* C18: when make_actor is called concurrently with device_id omitted from
\* several threads of the same process, the read and the advance of the
\* round-robin index are atomic: m concurrent calls on a backend with N
\* devices advance the index by exactly m modulo N and no two of them select
\* the same index value unless m exceeds N.
C18_Atomic ==
    (backend = "ray" /\ mk_thr # <<>> /\ \A t \in Threads : mk_thr[t].pc = "done") =>
        /\ actor_node_index[0] = NThreads % Len(devices[0])
        /\ NThreads <= Len(devices[0]) =>
              \A t1, t2 \in Threads : mk_thr[t1].sel = mk_thr[t2].sel => t1 = t2

\* ------------------------------------------------------------- kernel: update_block
\* Blocks are square arrays of BlockSide rows; an array is a view of a buffer
\* of the heap, transposed (T) or not, and several arrays may view one buffer.
BlockSide == 2
MaxMutations == 2
Rows == 1 .. BlockSide
Cells == 1 .. BlockSide * BlockSide

Flat(i, j) == (i - 1) * BlockSide + j
RowOf(k) == ((k - 1) \div BlockSide) + 1
ColOf(k) == ((k - 1) % BlockSide) + 1

\* Where arr[i, j] is in the buffer of arr.
Offset(arr, i, j) == IF arr.T THEN Flat(j, i) ELSE Flat(i, j)

getitem(h, arr, sel) == h[arr.buf][Offset(arr, sel[1], sel[2])]

\* arr.reshape(shape)[k] for the flat shape: the k-th entry in row-major order.
reshape_getitem(h, arr, sel) == getitem(h, arr, <<RowOf(sel[1]), ColOf(sel[1])>>)

\* arr[sel] = v writes through to the buffer of arr.
setitem(h, arr, sel, v) ==
    [h EXCEPT ![arr.buf] = [@ EXCEPT ![Offset(arr, sel[1], sel[2])] = v]]

\* arr.T: a view of the same buffer.
transpose(arr) == [arr EXCEPT !.T = ~arr.T]

Contents(h, arr) == [i \in Rows |-> [j \in Rows |-> getitem(h, arr, <<i, j>>)]]

\* A copy that is no copy: the array itself.
ndarray_copy_view(h, arr) == [heap |-> h, arr |-> arr]

\* arr.copy(): a new buffer with the entries of arr in row-major order.
ndarray_copy(h, arr) ==
    [heap |-> Append(h, [k \in Cells |-> getitem(h, arr, <<RowOf(k), ColOf(k)>>)]),
     arr |-> [buf |-> Len(h) + 1, T |-> FALSE]]

\* The loop of update_block from its i-th entry on.
RECURSIVE update_block_loop(_, _, _, _, _, _)
update_block_loop(h, dst_arr, src_arrs, src_params, dst_params, i) ==
    IF i > Len(src_params) THEN h
    ELSE LET src_arr == IF src_params[i].srcT THEN transpose(src_arrs[i])
                        ELSE src_arrs[i]
             v == IF src_params[i].src_shape_bc
                  THEN reshape_getitem(h, src_arr, src_params[i].src_sel)
                  ELSE getitem(h, src_arr, src_params[i].src_sel)
         IN  update_block_loop(setitem(h, dst_arr, dst_params[i].dst_sel, v),
                               dst_arr, src_arrs, src_params, dst_params, i + 1)

\* KernelCls.update_block: the heap after the call and the array returned.
update_block(h, dst_arr, src_arrs, src_params, dst_params) ==
    LET copied == ndarray_copy(h, dst_arr)
        dst == IF dst_params[1].dstT THEN transpose(copied.arr) ELSE copied.arr
    IN  [heap |-> update_block_loop(copied.heap, dst, src_arrs, src_params, dst_params, 1),
         arr |-> dst]

RECURSIVE update_block_by_index_loop(_, _, _, _, _)
update_block_by_index_loop(h, result, src_arr, index_pairs, i) ==
    IF i > Len(index_pairs) THEN h
    ELSE update_block_by_index_loop(
             setitem(h, result, index_pairs[i][1], getitem(h, src_arr, index_pairs[i][2])),
             result, src_arr, index_pairs, i + 1)

\* KernelCls.update_block_by_index
update_block_by_index(h, dst_arr, src_arr, index_pairs) ==
    LET copied == ndarray_copy(h, dst_arr)
    IN  [heap |-> update_block_by_index_loop(copied.heap, copied.arr, src_arr,
                                             index_pairs, 1),
         arr |-> copied.arr]

\* The arrays of the program: views of two buffers with different entries.
Views == {[buf |-> b, T |-> t] : b \in {1, 2}, t \in BOOLEAN}
Sels == {<<1, 1>>, <<1, BlockSide>>}
SrcParams ==
    {[src_sel |-> sel, src_shape_bc |-> FALSE, srcT |-> t] : sel \in Sels, t \in BOOLEAN}
    \cup {[src_sel |-> <<BlockSide>>, src_shape_bc |-> TRUE, srcT |-> t] : t \in BOOLEAN}
DstParams == {[dst_sel |-> sel, dstT |-> t] : sel \in Sels, t \in BOOLEAN}
PairCounts == {1, 2}
MutationValues == {0}

NoArray == [buf |-> 0, T |-> FALSE]
NoUpdate ==
    [pc |-> "none", dst |-> NoArray, result |-> NoArray, before |-> <<>>,
     aliased |-> FALSE, muts |-> 0]

InitUpdate ==
    /\ InitKernel /\ SystemIdle /\ RngIdle /\ PivotIdle /\ KernelIdle /\ BlockIdle
    /\ heap = <<[k \in Cells |-> k], [k \in Cells |-> BlockSide * BlockSide + k]>>
    /\ upd = NoUpdate

\* result = update_block(dst_arr, *src_arrs, src_params=..., dst_params=...)
UpdateBlock(dst_arr, src_arrs, src_params, dst_params) ==
    /\ upd.pc = "none"
    /\ LET r == update_block(heap, dst_arr, src_arrs, src_params, dst_params)
       IN  /\ heap' = r.heap
           /\ upd' = [pc |-> "updated", dst |-> dst_arr, result |-> r.arr,
                      before |-> Contents(heap, dst_arr),
                      aliased |-> \E i \in DOMAIN src_arrs : src_arrs[i].buf = dst_arr.buf,
                      muts |-> 0]
    /\ UNCHANGED notUpdate
    /\ UNCHANGED sysVars

\* result = update_block_by_index(dst_arr, src_arr, index_pairs)
UpdateBlockByIndex(dst_arr, src_arr, index_pairs) ==
    /\ upd.pc = "none"
    /\ LET r == update_block_by_index(heap, dst_arr, src_arr, index_pairs)
       IN  /\ heap' = r.heap
           /\ upd' = [pc |-> "indexed", dst |-> dst_arr, result |-> r.arr,
                      before |-> Contents(heap, dst_arr),
                      aliased |-> src_arr.buf = dst_arr.buf,
                      muts |-> 0]
    /\ UNCHANGED notUpdate
    /\ UNCHANGED sysVars

\* The program writes into the block it was returned: result[sel] = v.
MutateResult(sel, v) ==
    /\ upd.pc # "none" /\ upd.muts < MaxMutations
    /\ heap' = setitem(heap, upd.result, sel, v)
    /\ upd' = [upd EXCEPT !.muts = upd.muts + 1]
    /\ UNCHANGED notUpdate
    /\ UNCHANGED sysVars

NextUpdate ==
    \/ \E dst_arr \in Views, n \in PairCounts :
          \E src_arrs \in [1 .. n -> Views], src_params \in [1 .. n -> SrcParams],
             dst_params \in [1 .. n -> DstParams] :
              UpdateBlock(dst_arr, src_arrs, src_params, dst_params)
    \/ \E dst_arr \in Views, src_arr \in Views, n \in PairCounts :
          \E index_pairs \in [1 .. n -> Sels \X Sels] :
              UpdateBlockByIndex(dst_arr, src_arr, index_pairs)
    \/ \E sel \in Sels, v \in MutationValues : MutateResult(sel, v)

SpecUpdate == InitUpdate /\ [][NextUpdate]_vars

\* C19: update_block and update_block_by_index never modify the destination
\* block they are given: the contents of dst after the call equal its contents
\* before, and the returned block shares no storage with dst, so a later
\* mutation of the returned block leaves dst unchanged.
C19_CopyOnWrite ==
    upd # <<>> /\ upd.pc # "none" =>
        /\ Contents(heap, upd.dst) = upd.before
        /\ upd.result.buf # upd.dst.buf

\* update_block has written into the copy of a transposed destination from a
\* source that views the destination's buffer, and the program has written
\* into the returned block since.
C19_Witness ==
    /\ upd.pc = "updated" /\ upd.muts = MaxMutations
    /\ upd.aliased /\ upd.dst.T
    /\ Contents(heap, upd.result) # upd.before

\* ------------------------------------------------------------- kernel: pivot_partition
\* The 1-D arrays of the program: at most MaxLen entries.
MaxLen == 3
PivotValues == {0, 1, 2}
PivotArrays == UNION {[1 .. n -> PivotValues] : n \in 0 .. MaxLen}
Ops == {"gt", "lt", "ge", "le", "eq", "ne"}
OpArgs == Ops \cup {"in"}

\* An ops table whose "ge" is operator.gt.
ops_ge_strict(op_name, a, b) ==
    IF op_name = "gt" THEN a > b
    ELSE IF op_name = "lt" THEN a < b
    ELSE IF op_name = "ge" THEN a > b
    ELSE IF op_name = "le" THEN a <= b
    ELSE IF op_name = "eq" THEN a = b
    ELSE a # b

\* ops[op](a, b) with the operator module's functions.
ops(op_name, a, b) ==
    IF op_name = "gt" THEN a > b
    ELSE IF op_name = "lt" THEN a < b
    ELSE IF op_name = "ge" THEN a >= b
    ELSE IF op_name = "le" THEN a <= b
    ELSE IF op_name = "eq" THEN a = b
    ELSE a # b

\* arr[mask]: the entries of arr where mask is True, from index i on.
RECURSIVE BooleanIndex(_, _, _)
BooleanIndex(arr, mask, i) ==
    IF i > Len(arr) THEN <<>>
    ELSE IF mask[i] THEN <<arr[i]>> \o BooleanIndex(arr, mask, i + 1)
    ELSE BooleanIndex(arr, mask, i + 1)

\* KernelCls.pivot_partition
pivot_partition(arr, pivot, op_name) ==
    IF Len(arr) = 0 THEN [raises |-> FALSE, count |-> 0, filtered |-> arr]
    ELSE IF op_name \notin Ops THEN [raises |-> TRUE, count |-> 0, filtered |-> <<>>]
    ELSE LET comp == BooleanIndex(arr, [i \in 1 .. Len(arr) |-> ops(op_name, arr[i], pivot)], 1)
         IN  [raises |-> FALSE, count |-> Len(comp), filtered |-> comp]

InitPivot ==
    /\ InitKernel /\ SystemIdle /\ RngIdle /\ UpdateIdle /\ KernelIdle /\ BlockIdle
    /\ \E arr \in PivotArrays, pivot \in PivotValues, op_name \in OpArgs :
          piv = [pc |-> "args", arr |-> arr, pivot |-> pivot, op |-> op_name,
                 count |-> 0, filtered |-> <<>>]

\* count, filtered = pivot_partition(arr, pivot, op)
PivotPartition ==
    /\ piv.pc = "args"
    /\ LET r == pivot_partition(piv.arr, piv.pivot, piv.op)
       IN  piv' = [piv EXCEPT !.pc = IF r.raises THEN "raised" ELSE "returned",
                              !.count = r.count, !.filtered = r.filtered]
    /\ UNCHANGED notPivot
    /\ UNCHANGED sysVars

NextPivot == PivotPartition

SpecPivot == InitPivot /\ [][NextPivot]_vars

\* e op p, by the order of the integers.
Holds(e, op_name, p) ==
    CASE op_name = "gt" -> p < e
      [] op_name = "lt" -> e < p
      [] op_name = "ge" -> ~(e < p)
      [] op_name = "le" -> ~(p < e)
      [] op_name = "eq" -> e = p
      [] op_name = "ne" -> ~(e = p)

\* The indices of the entries of arr that satisfy the comparison, and the
\* k-th of them in increasing order.
Kept == {i \in 1 .. Len(piv.arr) : Holds(piv.arr[i], piv.op, piv.pivot)}
KthKept(k) == CHOOSE i \in Kept : Cardinality({j \in Kept : j < i}) = k - 1

\* C20: for every 1-D array arr, pivot p and op in {gt, lt, ge, le, eq, ne},
\* pivot_partition(arr, p, op) returns (count, filtered) where filtered holds
\* exactly the elements e of arr with e op p, in their original order and
\* multiplicity, and count equals the length of filtered; for an empty arr it
\* returns (0, arr) unchanged.
C20_PivotPartition ==
    (piv # <<>> /\ piv.pc # "args" /\ piv.op \in Ops) =>
        /\ piv.pc = "returned"
        /\ piv.count = Len(piv.filtered)
        /\ Len(piv.filtered) = Cardinality(Kept)
        /\ \A k \in 1 .. Len(piv.filtered) : piv.filtered[k] = piv.arr[KthKept(k)]
        /\ piv.arr = <<>> => piv.count = 0 /\ piv.filtered = piv.arr

\* pivot_partition has returned a part of an array of MaxLen entries with a
\* repeated entry, having dropped an entry equal to the pivot.
C20_Witness ==
    /\ piv.pc = "returned" /\ piv.op = "gt" /\ Len(piv.arr) = MaxLen
    /\ piv.count = 2 /\ piv.filtered[1] = piv.filtered[2]
    /\ \E i \in 1 .. Len(piv.arr) : piv.arr[i] = piv.pivot

\* ------------------------------------------------------------- kernel: arg_op
\* The non-empty 1-D arrays, and the ways to cut one into non-empty blocks:
\* the set of the 0-based positions at which a block starts.
ArgArrays == UNION {[1 .. n -> PivotValues] : n \in 1 .. MaxLen}
Blockings(arr) == {{0} \cup cuts : cuts \in SUBSET (1 .. Len(arr) - 1)}
ArgOps == {"argmin", "argmax"}
ArgOpArgs == ArgOps \cup {"argsort"}

\* The slice of the block that starts at position start: slice(start, stop).
BlockStop(arr, starts, start) ==
    IF \E c \in starts : c > start
    THEN CHOOSE c \in starts : c > start /\ \A d \in starts : d > start => c <= d
    ELSE Len(arr)
BlockOf(arr, starts, start) == SubSeq(arr, start + 1, BlockStop(arr, starts, start))

\* np.argmin(arr) and np.argmax(arr): the 0-based index of the first
\* occurrence of the least and of the greatest entry.
np_argmin(arr) ==
    CHOOSE i \in 0 .. Len(arr) - 1 :
        /\ \A j \in 1 .. Len(arr) : arr[i + 1] <= arr[j]
        /\ \A j \in 1 .. i : arr[j] # arr[i + 1]
np_argmax(arr) ==
    CHOOSE i \in 0 .. Len(arr) - 1 :
        /\ \A j \in 1 .. Len(arr) : arr[i + 1] >= arr[j]
        /\ \A j \in 1 .. i : arr[j] # arr[i + 1]

\* arg_op returning the block's own index, without block_slice.start.
arg_op_local(op_name, arr, block_slice_start, other) ==
    IF op_name = "argmin"
    THEN LET arr_argmin == np_argmin(arr)
             arr_min == arr[arr_argmin + 1]
         IN  IF other # <<>> /\ other[2] < arr_min THEN [raises |-> FALSE, pair |-> other]
             ELSE [raises |-> FALSE, pair |-> <<arr_argmin, arr_min>>]
    ELSE IF op_name = "argmax"
    THEN LET arr_argmax == np_argmax(arr)
             arr_max == arr[arr_argmax + 1]
         IN  IF other # <<>> /\ other[2] > arr_max THEN [raises |-> FALSE, pair |-> other]
             ELSE [raises |-> FALSE, pair |-> <<arr_argmax, arr_max>>]
    ELSE [raises |-> TRUE, pair |-> <<>>]

\* KernelCls.arg_op(op_name, arr, block_slice, other_argoptima, other_optima):
\* other is <<>> when the two are None, and <<other_argoptima, other_optima>>
\* otherwise; so is the pair returned.  An unsupported op_name raises.
arg_op(op_name, arr, block_slice_start, other) ==
    IF op_name = "argmin"
    THEN LET arr_argmin == np_argmin(arr)
             arr_min == arr[arr_argmin + 1]
         IN  IF other # <<>> /\ other[2] < arr_min THEN [raises |-> FALSE, pair |-> other]
             ELSE [raises |-> FALSE, pair |-> <<block_slice_start + arr_argmin, arr_min>>]
    ELSE IF op_name = "argmax"
    THEN LET arr_argmax == np_argmax(arr)
             arr_max == arr[arr_argmax + 1]
         IN  IF other # <<>> /\ other[2] > arr_max THEN [raises |-> FALSE, pair |-> other]
             ELSE [raises |-> FALSE, pair |-> <<block_slice_start + arr_argmax, arr_max>>]
    ELSE [raises |-> TRUE, pair |-> <<>>]

InitArgOp ==
    /\ InitKernel /\ SystemIdle /\ RngIdle /\ UpdateIdle /\ PivotIdle /\ BlockIdle
    /\ \E arr \in ArgArrays, op_name \in ArgOpArgs :
          \E starts \in Blockings(arr) :
              kcall = [fn |-> "arg_op", pc |-> "fold", op |-> op_name, arr |-> arr,
                       starts |-> starts, order |-> <<>>, carried |-> <<>>]

\* One step of the fold: arg_op on a block that was not folded yet, with the
\* pair the step before returned.
ArgOpStep ==
    /\ kcall.pc = "fold"
    /\ \E start \in kcall.starts \ {kcall.order[k] : k \in 1 .. Len(kcall.order)} :
          LET r == arg_op(kcall.op, BlockOf(kcall.arr, kcall.starts, start), start,
                          kcall.carried)
          IN  kcall' = IF r.raises
                       THEN [kcall EXCEPT !.pc = "raised"]
                       ELSE [kcall EXCEPT !.order = Append(@, start), !.carried = r.pair]
    /\ UNCHANGED notKernelCall
    /\ UNCHANGED sysVars

NextArgOp == ArgOpStep

SpecArgOp == InitArgOp /\ [][NextArgOp]_vars

\* The positions of the blocks folded so far, and whether v is the optimum of
\* the entries at the positions in S.
Folded ==
    UNION {{g \in 0 .. Len(kcall.arr) - 1 :
                kcall.order[k] <= g /\ g < BlockStop(kcall.arr, kcall.starts, kcall.order[k])}
           : k \in 1 .. Len(kcall.order)}
Optimum(v, S) ==
    /\ \E g \in S : kcall.arr[g + 1] = v
    /\ \A g \in S : IF kcall.op = "argmin" THEN ~(kcall.arr[g + 1] < v)
                    ELSE ~(v < kcall.arr[g + 1])
FoldOver == kcall.pc = "fold" /\ Len(kcall.order) = Cardinality(kcall.starts)

\* C21: left-folding arg_op("argmin", block, block_slice, carried_index,
\* carried_value) over the non-empty blocks of a 1-D array, each block given the
\* slice of its global position, returns the value of the global minimum and a
\* global index at which the array holds that value, whatever order the blocks
\* are folded in; the same holds for "argmax" and the global maximum.
C21_FoldReturnsOptimum ==
    (kcall # <<>> /\ kcall.fn = "arg_op" /\ kcall.op \in ArgOps /\ kcall.order # <<>>) =>
        /\ kcall.pc = "fold"
        /\ kcall.carried[1] \in Folded
        /\ kcall.arr[kcall.carried[1] + 1] = kcall.carried[2]
        /\ Optimum(kcall.carried[2], Folded)
        /\ FoldOver => Folded = 0 .. Len(kcall.arr) - 1

\* The fold of argmax is over for an array of MaxLen entries in two blocks or
\* more, the last block was folded first, and the maximum is at neither end
\* of the array only.
C21_Witness ==
    /\ kcall # <<>> /\ kcall.fn = "arg_op" /\ kcall.op = "argmax" /\ FoldOver
    /\ Len(kcall.arr) = MaxLen /\ Len(kcall.order) >= 2
    /\ kcall.order[1] > kcall.order[2]
    /\ kcall.carried[1] = 1 /\ kcall.arr[1] < kcall.carried[2]

\* The first block folded that holds the optimum of the blocks folded so far.
FirstAttaining ==
    CHOOSE k \in 1 .. Len(kcall.order) :
        LET Has(j) == \E g \in 0 .. Len(kcall.arr) - 1 :
                         /\ kcall.order[j] <= g
                         /\ g < BlockStop(kcall.arr, kcall.starts, kcall.order[j])
                         /\ kcall.arr[g + 1] = kcall.carried[2]
        IN  Has(k) /\ \A j \in 1 .. k - 1 : ~Has(j)

\* C27: in a left fold of arg_op over blocks in a fixed traversal order, ties
\* are resolved by 'first processed wins': when the optimum carried in from
\* earlier blocks equals the current block's local optimum, the fold keeps the
\* carried index and value, so the returned index is that of the first
\* processed block attaining the optimum.
C27_FirstProcessedWins ==
    (kcall # <<>> /\ kcall.fn = "arg_op" /\ kcall.pc = "fold" /\ kcall.order # <<>>) =>
        /\ kcall.order[FirstAttaining] <= kcall.carried[1]
        /\ kcall.carried[1] < BlockStop(kcall.arr, kcall.starts, kcall.order[FirstAttaining])

\* ------------------------------------------------------------- array layer: Block
\* tuple(reversed(t))
reversed(t) == [k \in 1 .. Len(t) |-> t[Len(t) + 1 - k]]

\* The grid of an array of shape shape cut into blocks of shape block_shape,
\* its entries, and the shape of the block at entry e.
GridShape(shape, block_shape) ==
    [k \in 1 .. Len(shape) |-> (shape[k] + block_shape[k] - 1) \div block_shape[k]]
GridEntries(grid_shape) == {e \in [1 .. Len(grid_shape) -> 0 .. MaxLen] :
                               \A k \in 1 .. Len(grid_shape) : e[k] < grid_shape[k]}
EntryShape(shape, block_shape, e) ==
    [k \in 1 .. Len(shape) |->
        IF (e[k] + 1) * block_shape[k] <= shape[k] THEN block_shape[k]
        ELSE shape[k] - e[k] * block_shape[k]]

\* Block.true_grid_entry(), Block.true_grid_shape() and Block.size()
Block_true_grid_entry(b) == IF b.transposed THEN reversed(b.grid_entry) ELSE b.grid_entry
Block_true_grid_shape(b) == IF b.transposed THEN reversed(b.grid_shape) ELSE b.grid_shape
Block_size(b) == b.shape[1] * b.shape[2]

\* A transpose that leaves grid_entry and grid_shape as they are stored.
Block_transpose_keep(b, defer) ==
    [grid_entry |-> b.grid_entry, grid_shape |-> b.grid_shape,
     shape |-> reversed(b.shape),
     transposed |-> IF defer THEN ~b.transposed ELSE FALSE]

\* Block.transpose(defer): the block of the transposed array.  Deferred, the
\* data stays and the flag flips; eager, the data is transposed and the flag
\* is False.
Block_transpose(b, defer) ==
    [grid_entry |-> reversed(b.grid_entry), grid_shape |-> reversed(b.grid_shape),
     shape |-> reversed(b.shape),
     transposed |-> IF defer THEN ~b.transposed ELSE FALSE]

\* BlockArray.transpose(defer): blocks[e] is the transpose of the block that
\* was at the reversed entry.
BlockArray_transpose(ba, defer) ==
    [e \in GridEntries(reversed(ba.grid_shape)) |->
        Block_transpose(ba.blocks[reversed(e)], defer)]

\* app.array(arr, block_shape) for a 2-D arr: one block per grid entry, none
\* transposed.
InitBlock ==
    /\ InitKernel /\ SystemIdle /\ RngIdle /\ UpdateIdle /\ PivotIdle /\ KernelIdle
    /\ \E m \in 1 .. MaxLen, n \in 1 .. MaxLen :
          \E bm \in 1 .. m, bn \in 1 .. n :
              LET grid_shape == GridShape(<<m, n>>, <<bm, bn>>)
              IN  blk = [grid_shape |-> grid_shape,
                         blocks |-> [e \in GridEntries(grid_shape) |->
                                        [grid_entry |-> e, grid_shape |-> grid_shape,
                                         shape |-> EntryShape(<<m, n>>, <<bm, bn>>, e),
                                         transposed |-> FALSE]],
                         last |-> "array", before |-> <<>>]

\* ba = ba.transpose(defer) or ba = ba.T
Transpose ==
    /\ blk # <<>>
    /\ \E defer \in BOOLEAN :
          blk' = [grid_shape |-> reversed(blk.grid_shape),
                  blocks |-> BlockArray_transpose(blk, defer),
                  last |-> IF defer THEN "defer" ELSE "eager",
                  before |-> blk.blocks]
    /\ UNCHANGED notBlock
    /\ UNCHANGED sysVars

NextBlock == Transpose

SpecBlock == InitBlock /\ [][NextBlock]_vars

\* The array is the 2x3 array in row blocks of shape (1,3), transposed once.
RowBlocks2x3 ==
    /\ blk.last # "array" /\ blk.grid_shape = <<1, 2>>
    /\ \A e \in DOMAIN blk.blocks : ~blk.before[reversed(e)].transposed
    /\ \A e \in DOMAIN blk.blocks : blk.blocks[e].shape = <<3, 1>>

\* Every block's true_grid_entry() and true_grid_shape() are the reversal of
\* what is stored when transposed and what is stored otherwise, its true
\* entry lies in its true grid, and the block is stored in the array at its
\* grid_entry.
BlockInvariant ==
    \A e \in DOMAIN blk.blocks :
        LET b == blk.blocks[e]
        IN  /\ b.grid_entry = e /\ b.grid_shape = blk.grid_shape
            /\ Block_true_grid_entry(b) = (IF b.transposed THEN <<e[2], e[1]>> ELSE e)
            /\ Block_true_grid_shape(b)
                 = (IF b.transposed THEN <<blk.grid_shape[2], blk.grid_shape[1]>>
                    ELSE blk.grid_shape)
            /\ blk.last = "eager" => ~b.transposed

\* C22 as claimed: for every block, true_grid_entry() and true_grid_shape()
\* equal the reversal of grid_entry and grid_shape when transposed is true and
\* equal them directly when it is false; a deferred transpose keeps the
\* block's stored grid_entry and grid_shape and sets transposed to true, while
\* an eager transpose yields blocks with transposed false.
C22_DeferredKeepsEntry ==
    blk # <<>> =>
        /\ BlockInvariant
        /\ blk.last = "defer" =>
              \A e \in DOMAIN blk.blocks :
                  /\ blk.blocks[e].grid_entry = blk.before[reversed(e)].grid_entry
                  /\ blk.blocks[e].grid_shape = blk.before[reversed(e)].grid_shape
                  /\ blk.blocks[e].transposed

\* C22: for every block, true_grid_entry() and true_grid_shape() equal the
\* reversal of grid_entry and grid_shape when transposed is true and equal
\* them directly when it is false; a deferred transpose reverses the block's
\* stored grid_entry and grid_shape and flips transposed, so that the true
\* entry and shape of a block that was not transposed stay what they were
\* (for the 2x3 array in row blocks of shape (1,3): grid_entry (0,1),
\* grid_shape (1,2), true_grid_entry (1,0), true_grid_shape (2,1)), while an
\* eager transpose yields blocks with transposed false, whose true entry and
\* shape are the stored ones.
C22_DeferredTranspose ==
    blk # <<>> =>
        /\ BlockInvariant
        /\ blk.last = "defer" =>
              \A e \in DOMAIN blk.blocks :
                  LET b == blk.blocks[e]
                      was == blk.before[<<e[2], e[1]>>]
                  IN  /\ b.grid_entry = <<was.grid_entry[2], was.grid_entry[1]>>
                      /\ b.grid_shape = <<was.grid_shape[2], was.grid_shape[1]>>
                      /\ b.transposed = ~was.transposed
                      /\ Block_size(b) = Block_size(was)
                      /\ ~was.transposed =>
                            /\ Block_true_grid_entry(b) = was.grid_entry
                            /\ Block_true_grid_shape(b) = was.grid_shape
        /\ (blk.last = "defer" /\ RowBlocks2x3) =>
              LET block1 == blk.blocks[<<0, 1>>]
              IN  /\ Block_size(block1) = 3 /\ block1.transposed
                  /\ block1.grid_entry = <<0, 1>> /\ block1.grid_shape = <<1, 2>>
                  /\ Block_true_grid_entry(block1) = <<1, 0>>
                  /\ Block_true_grid_shape(block1) = <<2, 1>>
        /\ (blk.last = "eager" /\ RowBlocks2x3) =>
              LET block1 == blk.blocks[<<0, 1>>]
              IN  /\ Block_size(block1) = 3 /\ ~block1.transposed
                  /\ block1.grid_entry = Block_true_grid_entry(block1)
                  /\ block1.grid_shape = Block_true_grid_shape(block1)

\* The 2x3 array in row blocks of shape (1,3) after a deferred transpose.
C22_Witness ==
    /\ blk # <<>> /\ blk.last = "defer" /\ RowBlocks2x3
    /\ blk.blocks[<<0, 1>>].transposed
    /\ blk.before[<<1, 0>>].grid_entry = <<1, 0>>

\* ------------------------------------------------------------- MPI: the root of get
\* The roots the ranks pass to comm.bcast for handle h, and the ranks that
\* hold the concrete value of h.
BcastRoots(h) == {MPISystem_get_root(r, H[h][r]) : r \in Ranks}
Holders(h) == {r \in Ranks : H[h][r].k = "val"}

\* C23: on the Message-Passing backend, when all ranks call get on the handles
\* they hold for the same values (handles returned by put or by call), then
\* for each handle every rank uses the same broadcast root, namely the rank
\* that holds the concrete value, and after get every rank holds that concrete
\* value.
C23_OneRoot ==
    (backend = "mpi" /\ op.kind = "get" /\ origin[op.h].kind \in {"put", "call"}) =>
        /\ \E root \in Holders(op.h) : BcastRoots(op.h) = {root}
        /\ \A r \in Ranks : pc[r] = "idle" =>
              \E root \in Holders(op.h) : ret[r] = H[op.h][root]

\* ------------------------------------------------------------- MPI: matching and return
\* Rank r has still to receive from rank src in its argument loop: one of the
\* arguments it has not resolved yet is a marker of r's own rank (the receive
\* of _resolve_args names the marker's rank as its source).
WillReceive(r, src) ==
    /\ pc[r] = "resolve" /\ src = r
    /\ \E j \in frame[r].i .. Len(op.args) :
          LET arg == ArgObj(r, op.args[j])
          IN  arg.k = "rank" /\ get_target_rank(arg) = r

\* Rank r has left the operation by an exception raised in _resolve_args,
\* before comm.barrier().
RaisedInResolve(r) == pc[r] = "failed" /\ r \notin arrived

\* C24: on the Message-Passing backend, when all ranks issue the same call,
\* make_actor or call_actor_method with any mix of local values and 'lives
\* elsewhere' markers as arguments, every blocking send is matched by a
\* receive on its destination rank, every blocking receive is matched by a
\* send from its source rank, and every rank eventually passes the barrier and
\* returns from the operation (no rank blocks forever).  Stated on the states
\* of the operation: no message is in flight to a rank that has no receive
\* left for it, no rank waits in a receive that no rank will send to, and no
\* rank has raised before the barrier, which leaves the other ranks in it.
C24_MatchedAndReturns ==
    (backend = "mpi" /\ op.kind \in {"call", "make_actor", "call_actor_method"}) =>
        /\ \A m \in chan : WillReceive(m.dst, m.src)
        /\ \A r \in Ranks :
              (pc[r] = "resolve" /\ frame[r].i <= Len(op.args)
               /\ ArgObj(r, op.args[frame[r].i]).k = "rank"
               /\ get_target_rank(ArgObj(r, op.args[frame[r].i])) = r) =>
                  \E m \in chan : m.dst = r
        /\ \A r \in Ranks : ~RaisedInResolve(r)

\* ------------------------------------------------------------- the device list after init
\* Programs of every operation of the system, with one argument at most in
\* a call and none for an actor, registrations under the function's own name
\* with remote parameters, and a warmup of one iteration at most before the
\* program creates a handle or an actor.
FrameArgLists == {args \in ArgLists : Len(args) <= 1}
FrameWarmupInputs == {n \in WarmupInputs : n <= 1 \/ n >= WarmupLimit}
NextFrame ==
    \/ MPIInit
    \/ RayInit
    \/ \E name \in Names : Register(name, name, TRUE)
    \/ \E name \in ActorNames, cls \in ActorClasses : RegisterActor(name, cls)
    \/ \E v \in LitValues, dev \in 1 .. NDev : Put(v, dev)
    \/ \E name \in Names, args \in FrameArgLists, dev \in 1 .. NDev :
          MPIIssueCall(name, args, dev)
    \/ \E r \in Ranks : MPIResolveArg(r)
    \/ \E r \in Ranks : MPIBarrier(r)
    \/ \E r \in Ranks : MPICall(r)
    \/ \E h \in 1 .. Len(H) : MPIIssueGet(h)
    \/ \E r \in Ranks : MPIGet(r)
    \/ \E name \in Names, args \in FrameArgLists, dev \in 1 .. NDev :
          RayCall(name, args, dev, NoOptions)
    \/ \E t \in 1 .. Len(tasks), n \in NodeIps : RayRunTask(t, n)
    \/ \E h \in 1 .. Len(H) : RayGet(h)
    \/ \E name \in ActorNames, dev \in 0 .. NDev : MPIIssueMakeActor(name, <<>>, dev)
    \/ \E r \in Ranks : MPIMakeActor(r)
    \/ \E a \in 1 .. Len(A) : MPIIssueCallActorMethod(a, <<>>)
    \/ \E r \in Ranks : MPICallActorMethod(r)
    \/ \E name \in ActorNames, dev \in 0 .. NDev : RayMakeActor(name, <<>>, dev)
    \/ \E a \in 1 .. Len(A) : RayCallActorMethod(a, <<>>)
    \/ \E n \in FrameWarmupInputs : H = <<>> /\ A = <<>> /\ tasks = <<>> /\ Warmup(n)
    \/ \E a \in WarmupValues : \E b \in WarmupValues \ {a} : WarmupIter(a, b)
    \/ WarmupGet
    \/ Shutdown

SpecFrame == Init /\ [][NextFrame]_vars

\* C25: on every backend, once init has completed, no sequence of register,
\* register_actor, put, get, call, make_actor, call_actor_method, warmup or
\* shutdown operations changes the list returned by devices() or the
\* device-to-node map.
C25_DevicesFrozen ==
    [][inited => (devices' = devices /\ device_to_node' = device_to_node)]_vars

\* The system was shut down after init with a device list of NNodes devices,
\* an actor made on its round-robin device and a value put.
C25_Witness ==
    /\ inited /\ shutdowns > 0
    /\ \A p \in Procs : Len(devices[p]) = NNodes
    /\ A # <<>> /\ A[1].name \in ActorNames /\ \E p \in Procs : actor_node_index[p] > 0
    /\ H # <<>>

\* ------------------------------------------------------------- Ray: the device list of init
\* The clusters ray.nodes() can report: NNodes nodes of distinct addresses in
\* any order, each with or without CPUs, and a head address that is the
\* address of one of them or of none (0).  The configurations: the head used
\* or not, the node count left open (0) or set to 1 .. NNodes + 1.
ClusterEnvs ==
    {[nodes |-> [i \in NodeIps |-> [ip |-> ips[i], cpu |-> cpus[i]]],
      head_ip |-> head_ip, initialized |-> FALSE, foreign |-> FALSE] :
        ips \in {f \in [NodeIps -> NodeIps] : \A i, j \in NodeIps : f[i] = f[j] => i = j},
        cpus \in [NodeIps -> {0, 1}], head_ip \in {0} \cup NodeIps}
ClusterCfgs ==
    {[use_head |-> u, num_nodes |-> n, manage_ray |-> TRUE] :
        u \in BOOLEAN, n \in 0 .. NNodes + 1}

InitCluster ==
    /\ InitSystemOn(ClusterEnvs, ClusterCfgs) /\ backend = "ray" /\ stock = FALSE
    /\ SideIdle

\* Programs that initialise the system.
NextCluster == RayInit

SpecCluster == InitCluster /\ [][NextCluster]_vars

\* The nodes of the cluster that init may place devices on: those with CPUs
\* that are not at the head address, and the one at the head address when
\* the head is used.
Eligible ==
    {i \in 1 .. Len(ray_env.nodes) :
        /\ ray_env.nodes[i].cpu > 0
        /\ ray_env.nodes[i].ip = ray_env.head_ip => ray_cfg.use_head}

\* C26: after init of the Cluster-Scheduler backend, devices() has exactly
\* num_nodes entries (the configured count, or the number of eligible nodes
\* when none is configured) with node_index 0..num_nodes-1 in list order and
\* pairwise distinct node keys; a node without CPU resources is never in the
\* list; the node whose address is the head address is never in the list when
\* use_head is false; and init fails when the configured count exceeds the
\* number of eligible nodes.
C26_DeviceList ==
    (backend = "ray" /\ op.kind = "init") =>
        LET devs == devices[0]
            num_nodes == IF ray_cfg.num_nodes = 0 THEN Cardinality(Eligible)
                         ELSE ray_cfg.num_nodes
        IN  /\ inited <=> num_nodes <= Cardinality(Eligible)
            /\ ~inited => \A p \in Procs : pc[p] = "failed" /\ devices[p] = <<>>
            /\ inited =>
                  /\ Len(devs) = num_nodes
                  /\ \A i \in 1 .. Len(devs) : devs[i].node_index = i - 1
                  /\ \A i, j \in 1 .. Len(devs) :
                        devs[i].node_key = devs[j].node_key => i = j
                  /\ \A i \in 1 .. Len(devs) :
                        \E n \in Eligible :
                            /\ devs[i].node_key = NodeKey(ray_env.nodes[n].ip)
                            /\ device_to_node[0][devs[i]] = ray_env.nodes[n]
                  /\ \A i \in 1 .. Len(devs), n \in 1 .. Len(ray_env.nodes) :
                        devs[i].node_key = NodeKey(ray_env.nodes[n].ip) =>
                            /\ ray_env.nodes[n].cpu > 0
                            /\ ~ray_cfg.use_head => ray_env.nodes[n].ip # ray_env.head_ip

\* init has built the list of the one device configured, on a cluster with
\* a node without CPUs and a node at the head address, the head left out.
C26_Witness ==
    /\ backend = "ray" /\ op.kind = "init" /\ inited /\ ~ray_cfg.use_head
    /\ Len(devices[0]) = 1 /\ ray_cfg.num_nodes = 1
    /\ \E n \in 1 .. Len(ray_env.nodes) : ray_env.nodes[n].ip = ray_env.head_ip
    /\ \E n \in 1 .. Len(ray_env.nodes) : ray_env.nodes[n].cpu = 0

\* ------------------------------------------------------------- kernel: advanced indexing
\* Arrays are 1-D and live in a memory of buffers: an ndarray is the index of
\* its buffer.  A destination is an ndarray or the pair (shape, dtype); a
\* source is an ndarray or a scalar.
NdArray(buf, n) == [nd |-> TRUE, buf |-> buf, shape |-> n, v |-> 0]
ShapeDtype(n) == [nd |-> FALSE, buf |-> 0, shape |-> n, v |-> 0]
Scalar(v) == [nd |-> FALSE, buf |-> 0, shape |-> 0, v |-> v]

\* The contents of the blocks of the program: the i-th entry of a source is
\* SrcEntry(i), every entry of a destination is DstEntry, a scalar source is
\* ScalarEntry.
SrcEntry(i) == 10 + i
DstEntry == 7
ScalarEntry == 5

\* np.zeros(shape) and arr.copy(): a new buffer at the end of the memory.
np_zeros(mem, n) == Append(mem, [p \in 1 .. n |-> 0])
np_copy(mem, arr) == Append(mem, mem[arr.buf])

\* The entries k (0-based) of the index array that the mask of
\* advanced_select_block_along_axis keeps: k lies in the destination block and
\* array[k] in the source block.
select_mask(array, dst_coord, dst_len, src_coord, src_len) ==
    {k \in 0 .. Len(array) - 1 :
        /\ dst_coord <= k /\ k < dst_coord + dst_len
        /\ src_coord <= array[k + 1] /\ array[k + 1] < src_coord + src_len}

\* An advanced_select_block_along_axis without the early return.
select_nothing_to_do_never(mask) == FALSE

\* dst_vec.shape[0] == 0
select_nothing_to_do(mask) == mask = {}

\* KernelCls.advanced_select_block_along_axis for ss = (array,) and axis 0:
\* the memory after the call and what the call returns.
advanced_select_block_along_axis(mem, dst_arr_or_args, src_arr, array, dst_coord, src_coord) ==
    LET mask == select_mask(array, dst_coord, dst_arr_or_args.shape, src_coord,
                            src_arr.shape)
    IN  IF select_nothing_to_do(mask) THEN [mem |-> mem, out |-> dst_arr_or_args]
        ELSE LET mem1 == IF dst_arr_or_args.nd THEN np_copy(mem, dst_arr_or_args)
                         ELSE np_zeros(mem, dst_arr_or_args.shape)
                 dst_arr == NdArray(Len(mem1), dst_arr_or_args.shape)
             IN  [mem |-> [mem1 EXCEPT ![dst_arr.buf] =
                              [p \in 1 .. dst_arr.shape |->
                                  IF p - 1 + dst_coord \in mask
                                  THEN mem1[src_arr.buf][array[p + dst_coord] - src_coord + 1]
                                  ELSE @[p]]],
                  out |-> dst_arr]

\* The mask of advanced_assign_block_along_axis: array[k] lies in the
\* destination block and, for a source that is no scalar, k in the source
\* block.
assign_mask(array, dst_coord, dst_len, src_arr, src_coord) ==
    {k \in 0 .. Len(array) - 1 :
        /\ dst_coord <= array[k + 1] /\ array[k + 1] < dst_coord + dst_len
        /\ src_arr.nd => (src_coord <= k /\ k < src_coord + src_arr.shape)}

\* KernelCls.advanced_assign_block_along_axis for ss = (array,) and axis 0.
\* dst_arr[dst_vec] = src_arr[src_vec] writes in the order of the index array:
\* of two entries for one position the later one stays.
advanced_assign_block_along_axis(mem, dst_arr, src_arr, array, dst_coord, src_coord) ==
    LET mask == assign_mask(array, dst_coord, dst_arr.shape, src_arr, src_coord)
    IN  IF mask = {} THEN [mem |-> mem, out |-> dst_arr]
        ELSE LET mem1 == np_copy(mem, dst_arr)
                 out == NdArray(Len(mem1), dst_arr.shape)
                 At(p) == {k \in mask : array[k + 1] - dst_coord = p - 1}
                 Last(p) == CHOOSE k \in At(p) : \A j \in At(p) : j <= k
             IN  [mem |-> [mem1 EXCEPT ![out.buf] =
                              [p \in 1 .. out.shape |->
                                  IF At(p) = {} THEN @[p]
                                  ELSE IF src_arr.nd
                                  THEN mem1[src_arr.buf][Last(p) - src_coord + 1]
                                  ELSE src_arr.v]],
                  out |-> out]

\* The index arrays: 1 .. MaxLen global positions among 0 .. MaxLen.  Blocks
\* have 1 .. BlockSide entries and start at 0 .. BlockSide.
IndexArrays == UNION {[1 .. n -> 0 .. MaxLen] : n \in 1 .. MaxLen}
BlockLens == 1 .. BlockSide
BlockCoords == 0 .. BlockSide

InitAdvanced ==
    /\ InitKernel /\ SystemIdle /\ RngIdle /\ UpdateIdle /\ PivotIdle /\ BlockIdle
    /\ \E array \in IndexArrays, dst_len \in BlockLens, src_len \in BlockLens,
          dst_coord \in BlockCoords, src_coord \in BlockCoords,
          fn \in {"select", "assign"}, whole \in BOOLEAN :
          LET src_buf == [i \in 1 .. src_len |-> SrcEntry(i)]
              dst_buf == [p \in 1 .. dst_len |-> DstEntry]
          IN  kcall = [fn |-> fn, pc |-> "args", array |-> array,
                       dst_coord |-> dst_coord, src_coord |-> src_coord,
                       mem |-> <<src_buf, dst_buf>>,
                       src |-> IF fn = "assign" /\ ~whole THEN Scalar(ScalarEntry)
                               ELSE NdArray(1, src_len),
                       dst |-> IF fn = "select" /\ ~whole THEN ShapeDtype(dst_len)
                               ELSE NdArray(2, dst_len),
                       before |-> <<src_buf, dst_buf>>, out |-> ShapeDtype(0)]

AdvancedSelect ==
    /\ kcall.fn = "select" /\ kcall.pc = "args"
    /\ LET r == advanced_select_block_along_axis(kcall.mem, kcall.dst, kcall.src,
                    kcall.array, kcall.dst_coord, kcall.src_coord)
       IN  kcall' = [kcall EXCEPT !.pc = "returned", !.mem = r.mem, !.out = r.out]
    /\ UNCHANGED notKernelCall
    /\ UNCHANGED sysVars

AdvancedAssign ==
    /\ kcall.fn = "assign" /\ kcall.pc = "args"
    /\ LET r == advanced_assign_block_along_axis(kcall.mem, kcall.dst, kcall.src,
                    kcall.array, kcall.dst_coord, kcall.src_coord)
       IN  kcall' = [kcall EXCEPT !.pc = "returned", !.mem = r.mem, !.out = r.out]
    /\ UNCHANGED notKernelCall
    /\ UNCHANGED sysVars

NextAdvanced == AdvancedSelect \/ AdvancedAssign

SpecAdvanced == InitAdvanced /\ [][NextAdvanced]_vars

\* The pairs <<d, s>> of a 0-based position d of the destination block and
\* the source element s that the index array sends there: for a select,
\* result[k] = source[array[k]]; for an assignment, target[array[k]] =
\* source[k], or the scalar.
InDst(g) == kcall.dst_coord <= g /\ g < kcall.dst_coord + kcall.dst.shape
InSrc(g) == kcall.src_coord <= g /\ g < kcall.src_coord + kcall.src.shape
Intersection ==
    IF kcall.fn = "select"
    THEN {<<k - kcall.dst_coord, SrcEntry(kcall.array[k + 1] - kcall.src_coord + 1)>> :
            k \in {j \in 0 .. Len(kcall.array) - 1 : InDst(j) /\ InSrc(kcall.array[j + 1])}}
    ELSE IF kcall.src.nd
    THEN {<<kcall.array[k + 1] - kcall.dst_coord, SrcEntry(k - kcall.src_coord + 1)>> :
            k \in {j \in 0 .. Len(kcall.array) - 1 : InDst(kcall.array[j + 1]) /\ InSrc(j)}}
    ELSE {<<kcall.array[k + 1] - kcall.dst_coord, ScalarEntry>> :
            k \in {j \in 0 .. Len(kcall.array) - 1 : InDst(kcall.array[j + 1])}}

\* C28: advanced_select_block_along_axis and advanced_assign_block_along_axis
\* never modify the destination they are given; when no index of the index
\* array falls both inside the destination block's coordinate range and inside
\* the source block's coordinate range along the axis, they return the
\* destination input itself without allocating or copying; otherwise they
\* return a new block that differs from the destination (or from zeros, when
\* only shape and dtype were given) only at the positions of that
\* intersection, where each element equals the corresponding source element.
C28_SparseIntersection ==
    (kcall # <<>> /\ kcall.fn \in {"select", "assign"} /\ kcall.pc = "returned") =>
        /\ \A b \in 1 .. Len(kcall.before) : kcall.mem[b] = kcall.before[b]
        /\ IF Intersection = {}
           THEN kcall.out = kcall.dst /\ kcall.mem = kcall.before
           ELSE /\ kcall.out.nd /\ kcall.out.buf = Len(kcall.before) + 1
                /\ Len(kcall.mem) = Len(kcall.before) + 1
                /\ kcall.out.shape = kcall.dst.shape
                /\ \A p \in 1 .. kcall.dst.shape :
                      LET e == kcall.mem[kcall.out.buf][p]
                      IN  IF \E pair \in Intersection : pair[1] = p - 1
                          THEN \E pair \in Intersection : pair[1] = p - 1 /\ pair[2] = e
                          ELSE e = (IF kcall.dst.nd THEN DstEntry ELSE 0)

\* An assignment has returned a new block with an entry from the source and
\* an entry of the destination, for an index array with an entry outside the
\* destination block.
C28_Witness ==
    /\ kcall # <<>> /\ kcall.fn = "assign" /\ kcall.pc = "returned" /\ kcall.src.nd
    /\ kcall.out # kcall.dst /\ kcall.dst.shape = BlockSide
    /\ \E p \in 1 .. kcall.dst.shape : kcall.mem[kcall.out.buf][p] = DstEntry
    /\ \E p \in 1 .. kcall.dst.shape : kcall.mem[kcall.out.buf][p] = SrcEntry(BlockSide)
    /\ \E k \in 1 .. Len(kcall.array) : ~InDst(kcall.array[k])

\* ------------------------------------------------------------- kernel: medians
\* The values and the weights of the blocks of a quickselect round.
MedianValues == {0 - 1, 0, 1}
MedianWeights == {0, 1, 2}
\* The orders of the indices in S.
RECURSIVE OrdersOf(_)
OrdersOf(S) ==
    IF S = {} THEN {<<>>}
    ELSE UNION {{<<i>> \o q : q \in OrdersOf(S \ {i})} : i \in S}
Orders(n) == OrdersOf(1 .. n)

\* A partition that leaves arr in its order.
np_partition_none(arr, kth) == arr

\* np.partition(arr, kth): arr in an order in which the entry at kth is where
\* it is in sorted order, no entry before it is greater and none after it is
\* smaller.
np_partition(arr, kth) ==
    LET q == CHOOSE q \in Orders(Len(arr)) :
                 /\ \A i \in 1 .. kth : arr[q[i]] <= arr[q[kth + 1]]
                 /\ \A i \in kth + 2 .. Len(arr) : arr[q[i]] >= arr[q[kth + 1]]
    IN  [i \in 1 .. Len(arr) |-> arr[q[i]]]

\* KernelCls.select_median
select_median(arr) ==
    IF Len(arr) = 0 THEN 0
    ELSE LET index == Len(arr) \div 2
         IN  np_partition(arr, index)[index + 1]

\* The results np.argsort(arr) can have: the orders (0-based) that sort arr.
np_argsort(arr) ==
    {[i \in 1 .. Len(arr) |-> q[i] - 1] : q \in
        {o \in Orders(Len(arr)) : \A i \in 1 .. Len(arr) - 1 : arr[o[i]] <= arr[o[i + 1]]}}

\* np.cumsum(a)
RECURSIVE np_cumsum(_)
np_cumsum(a) ==
    IF a = <<>> THEN <<>>
    ELSE LET front == np_cumsum(SubSeq(a, 1, Len(a) - 1))
         IN  Append(front, (IF front = <<>> THEN 0 ELSE front[Len(front)]) + a[Len(a)])

\* np.searchsorted(a, v) for a sorted a and v = twice_v / 2: the number of
\* entries a[i] with a[i] < v.
np_searchsorted(a, twice_v) ==
    Cardinality({i \in 1 .. Len(a) : 2 * a[i] < twice_v})

\* KernelCls.weighted_median(*arr_and_weights) with the order argsort gave.
weighted_median(arr_and_weights, argsorted_arr) ==
    LET mid == Len(arr_and_weights) \div 2
        arr == SubSeq(arr_and_weights, 1, mid)
        weights == SubSeq(arr_and_weights, mid + 1, Len(arr_and_weights))
        sorted_weights_sum ==
            np_cumsum([i \in 1 .. mid |-> weights[argsorted_arr[i] + 1]])
        twice_half == sorted_weights_sum[mid]
    IN  arr[argsorted_arr[np_searchsorted(sorted_weights_sum, twice_half) + 1] + 1]

\* seq with e put in before position pos.
InsertAt(seq, pos, e) == SubSeq(seq, 1, pos - 1) \o <<e>> \o SubSeq(seq, pos, Len(seq))

InitMedian ==
    /\ InitKernel /\ SystemIdle /\ RngIdle /\ UpdateIdle /\ PivotIdle /\ BlockIdle
    /\ \E n \in 0 .. MaxLen :
          \E arr \in [1 .. n -> MedianValues], weights \in [1 .. n -> MedianWeights] :
              kcall = [fn |-> "median", arr |-> arr, weights |-> weights,
                       selected |-> <<>>, median |-> <<>>, with_empty |-> <<>>]

\* m = select_median(arr)
SelectMedian ==
    /\ kcall.selected = <<>>
    /\ kcall' = [kcall EXCEPT !.selected = <<select_median(kcall.arr)>>]
    /\ UNCHANGED notKernelCall
    /\ UNCHANGED sysVars

\* weighted_median(*arr, *weights) for the medians and sizes of blocks none of
\* which is empty, once select_median has returned.
WeightedMedian ==
    /\ kcall.selected # <<>> /\ kcall.median = <<>> /\ kcall.arr # <<>>
    /\ \E argsorted_arr \in np_argsort(kcall.arr) :
          kcall' = [kcall EXCEPT !.median =
                       <<weighted_median(kcall.arr \o kcall.weights, argsorted_arr)>>]
    /\ UNCHANGED notKernelCall
    /\ UNCHANGED sysVars

\* weighted_median with the median select_median gives for one more block,
\* which is empty, and its size, as the pos-th block.
WeightedMedianWithEmpty ==
    /\ kcall.median # <<>> /\ kcall.with_empty = <<>>
    /\ \E pos \in 1 .. Len(kcall.arr) + 1 :
          LET arr == InsertAt(kcall.arr, pos, select_median(<<>>))
              weights == InsertAt(kcall.weights, pos, Len(<<>>))
          IN  \E argsorted_arr \in np_argsort(arr) :
                  kcall' = [kcall EXCEPT !.with_empty =
                               <<weighted_median(arr \o weights, argsorted_arr), pos>>]
    /\ UNCHANGED notKernelCall
    /\ UNCHANGED sysVars

NextMedian == SelectMedian \/ WeightedMedian \/ WeightedMedianWithEmpty

SpecMedian == InitMedian /\ [][NextMedian]_vars

\* The entries of arr that are less than v, and at most v; the total of the
\* weights of the entries of arr that are at most v.
Below(v) == {i \in 1 .. Len(kcall.arr) : kcall.arr[i] < v}
UpTo(v) == {i \in 1 .. Len(kcall.arr) : kcall.arr[i] <= v}
RECURSIVE WeightOf(_)
WeightOf(S) ==
    IF S = {} THEN 0
    ELSE LET i == CHOOSE i \in S : TRUE IN kcall.weights[i] + WeightOf(S \ {i})
TotalWeight == WeightOf(1 .. Len(kcall.arr))

\* C29: select_median of a non-empty 1-D array returns the element at rank
\* size // 2 of its sorted order, and of an empty array returns 0; adding that
\* sentinel with weight 0 (the size of the empty block) to the values and
\* weights of weighted_median never changes its result, for every list of
\* values with non-negative weights whose total weight is positive, where
\* weighted_median returns the value whose cumulative weight in value order
\* first reaches half the total weight.
C29_Medians ==
    (kcall # <<>> /\ kcall.fn = "median") =>
        /\ kcall.selected # <<>> =>
              LET m == kcall.selected[1]
                  rank == Len(kcall.arr) \div 2
              IN  IF kcall.arr = <<>> THEN m = 0
                  ELSE /\ \E i \in 1 .. Len(kcall.arr) : kcall.arr[i] = m
                       /\ Cardinality(Below(m)) <= rank /\ rank < Cardinality(UpTo(m))
        /\ (kcall.median # <<>> /\ TotalWeight > 0) =>
              LET m == kcall.median[1]
              IN  /\ \E i \in 1 .. Len(kcall.arr) : kcall.arr[i] = m
                  /\ 2 * WeightOf(UpTo(m)) >= TotalWeight
                  /\ 2 * WeightOf(Below(m)) < TotalWeight
        /\ (kcall.median # <<>> /\ kcall.with_empty # <<>> /\ TotalWeight > 0) =>
              kcall.with_empty[1] = kcall.median[1]

\* The weighted median of MaxLen blocks is below the sentinel, one block has
\* weight 0 and the median 0, and the sentinel was added as the first block.
C29_Witness ==
    /\ kcall # <<>> /\ kcall.fn = "median" /\ Len(kcall.arr) = MaxLen
    /\ kcall.selected # <<>> /\ kcall.median # <<>> /\ kcall.with_empty # <<>>
    /\ TotalWeight > 0 /\ kcall.median[1] < 0 /\ kcall.with_empty[2] = 1
    /\ \E i \in 1 .. Len(kcall.arr) : kcall.arr[i] = 0 /\ kcall.weights[i] = 0

\* ------------------------------------------------------------- kernel: svd
\* The 2-D blocks: m x n with m, n in 1 .. MaxLen, at most MaxCells entries,
\* each 0 or 1, as a shape and the entries by row and column.  Of the factors
\* of a decomposition only the shapes are modelled.
MaxCells == 6
MatrixShapes == {s \in (1 .. MaxLen) \X (1 .. MaxLen) : s[1] * s[2] <= MaxCells}
Matrices ==
    UNION {{[shape |-> s, data |-> d] : d \in [(1 .. s[1]) \X (1 .. s[2]) -> {0, 1}]} :
            s \in MatrixShapes}
Minimum(a, b) == IF a <= b THEN a ELSE b

\* The shapes of np.linalg.svd(arr), full_matrices=True: u is m x m, sigma has
\* min(m, n) entries, vT is n x n.
np_linalg_svd(arr) ==
    LET m == arr.shape[1]
        n == arr.shape[2]
    IN  [u |-> <<m, m>>, sigma |-> <<Minimum(m, n)>>, vT |-> <<n, n>>]

\* The shape of a[:stop] for a 2-D a: the first stop rows.
getitem_rows(shape, stop) == <<Minimum(stop, shape[1]), shape[2]>>

\* KernelCls.svd: the shapes of u, sigma and vT.
svd(arr) ==
    LET f == np_linalg_svd(arr)
    IN  [u |-> getitem_rows(f.u, f.sigma[1]), sigma |-> f.sigma, vT |-> f.vT]

InitSvd ==
    /\ InitKernel /\ SystemIdle /\ RngIdle /\ UpdateIdle /\ PivotIdle /\ BlockIdle
    /\ \E arr \in Matrices :
          kcall = [fn |-> "svd", pc |-> "args", arr |-> arr,
                   u |-> <<>>, sigma |-> <<>>, vT |-> <<>>]

\* u, sigma, vT = svd(arr)
Svd ==
    /\ kcall.fn = "svd" /\ kcall.pc = "args"
    /\ LET r == svd(kcall.arr)
       IN  kcall' = [kcall EXCEPT !.pc = "returned", !.u = r.u, !.sigma = r.sigma,
                                  !.vT = r.vT]
    /\ UNCHANGED notKernelCall
    /\ UNCHANGED sysVars

NextSvd == Svd

SpecSvd == InitSvd /\ [][NextSvd]_vars

\* C30: for every m x n input block, svd returns the left singular vectors in
\* reduced form: a matrix with m rows truncated to min(m, n) columns, together
\* with min(m, n) singular values.
C30_ReducedU ==
    (kcall # <<>> /\ kcall.fn = "svd" /\ kcall.pc = "returned") =>
        LET m == kcall.arr.shape[1]
            n == kcall.arr.shape[2]
            k == IF m <= n THEN m ELSE n
        IN  /\ kcall.u = <<m, k>>
            /\ kcall.sigma = <<k>>

====
